---- MODULE Spec2Model ----
(***************************************************************************)
(* A model of the Atlan Slack health checker: the command parser, the      *)
(* industry classifier and the scorer of src/api/index.py, the Slack       *)
(* signature check and the handlers of src/app.py and                      *)
(* src/.netlify/functions/app.py, and the reply builder of                 *)
(* src/netlify/functions/slack-command.py.                                 *)
(*                                                                         *)
(* Python strings are sequences of one-character strings, so that          *)
(* startswith, find, split, strip, lower, the two regular expressions and  *)
(* str(dict) are computed character by character.  Indices are 1-based;    *)
(* 0 stands for Python's "not found" (-1).                                 *)
(*                                                                         *)
(* requests holds the calls of slack_command of src/api/index.py that run  *)
(* at once, each with the thread it started; log holds the lines each      *)
(* thread printed, in the order it printed them.                           *)
(***************************************************************************)
EXTENDS Integers, Sequences, FiniteSets, TLC

VARIABLES health_checker, op, arg, res, requests, log

vars == <<health_checker, op, arg, res, requests, log>>

----------------------------------------------------------------------------
(* Characters and string primitives                                        *)

LowerLetters == {"a","b","c","d","e","f","g","h","i","j","k","l","m","n","o","p","q","r","s","t","u","v","w","x","y","z"}

UpperLetters == {"A","B","C","D","E","F","G","H","I","J","K","L","M","N","O","P","Q","R","S","T","U","V","W","X","Y","Z"}

Digits == {"0","1","2","3","4","5","6","7","8","9"}

\* the lower-case letter of each upper-case letter
ToLower == ("A" :> "a") @@ ("B" :> "b") @@ ("C" :> "c") @@ ("D" :> "d") @@ ("E" :> "e") @@ ("F" :> "f") @@ ("G" :> "g") @@ ("H" :> "h") @@ ("I" :> "i") @@ ("J" :> "j") @@ ("K" :> "k") @@ ("L" :> "l") @@ ("M" :> "m") @@ ("N" :> "n") @@ ("O" :> "o") @@ ("P" :> "p") @@ ("Q" :> "q") @@ ("R" :> "r") @@ ("S" :> "s") @@ ("T" :> "t") @@ ("U" :> "u") @@ ("V" :> "v") @@ ("W" :> "w") @@ ("X" :> "x") @@ ("Y" :> "y") @@ ("Z" :> "z")

\* the upper-case letter of each lower-case letter
ToUpper == ("a" :> "A") @@ ("b" :> "B") @@ ("c" :> "C") @@ ("d" :> "D") @@ ("e" :> "E") @@ ("f" :> "F") @@ ("g" :> "G") @@ ("h" :> "H") @@ ("i" :> "I") @@ ("j" :> "J") @@ ("k" :> "K") @@ ("l" :> "L") @@ ("m" :> "M") @@ ("n" :> "N") @@ ("o" :> "O") @@ ("p" :> "P") @@ ("q" :> "Q") @@ ("r" :> "R") @@ ("s" :> "S") @@ ("t" :> "T") @@ ("u" :> "U") @@ ("v" :> "V") @@ ("w" :> "W") @@ ("x" :> "X") @@ ("y" :> "Y") @@ ("z" :> "Z")

\* \w of the re module
WordChars == LowerLetters \cup UpperLetters \cup Digits \cup {"_"}

\* \s of the re module, and the characters str.split() and str.strip() drop
Whitespace == {" ", "\t"}

\* [\w\.-] of url_pattern
UrlHostChars == WordChars \cup {".", "-"}

\* [\w,.-] of filter_pattern
FilterValueChars == WordChars \cup {",", ".", "-"}

Min(S) == CHOOSE x \in S : \A y \in S : x <= y

Max(S) == CHOOSE x \in S : \A y \in S : x >= y

lower_char(c) == IF c \in UpperLetters THEN ToLower[c] ELSE c

upper_char(c) == IF c \in LowerLetters THEN ToUpper[c] ELSE c

\* str.lower()
RECURSIVE lower(_)
lower(s) == IF s = <<>> THEN <<>> ELSE <<lower_char(Head(s))>> \o lower(Tail(s))

\* str.upper()
RECURSIVE upper(_)
upper(s) == IF s = <<>> THEN <<>> ELSE <<upper_char(Head(s))>> \o upper(Tail(s))

\* s[i-1:] of Python, for a 1-based i
From(s, i) == SubSeq(s, i, Len(s))

\* s.startswith(p, i-1)
StartsWithAt(s, i, p) == /\ i >= 1
                         /\ i + Len(p) - 1 <= Len(s)
                         /\ SubSeq(s, i, i + Len(p) - 1) = p

\* p in s
Contains(s, p) == \E i \in 1..(Len(s) + 1) : StartsWithAt(s, i, p)

\* s.find(c, start-1) + 1 for a one-character c
find(s, c, start) ==
  IF \E i \in start..Len(s) : s[i] = c
  THEN Min({i \in start..Len(s) : s[i] = c})
  ELSE 0

\* the last index of the run of characters of class C that starts at i, s[i] being one
RECURSIVE RunEnd(_, _, _)
RunEnd(s, i, C) ==
  IF i < Len(s) /\ s[i + 1] \in C THEN RunEnd(s, i + 1, C) ELSE i

\* the last index of the run of characters outside class C that starts at i
RECURSIVE RunEndNot(_, _, _)
RunEndNot(s, i, C) ==
  IF i < Len(s) /\ s[i + 1] \notin C THEN RunEndNot(s, i + 1, C) ELSE i

\* s.strip(chars)
strip_chars(s, C) ==
  IF \A i \in 1..Len(s) : s[i] \in C
  THEN <<>>
  ELSE SubSeq(s, Min({i \in 1..Len(s) : s[i] \notin C}),
                 Max({i \in 1..Len(s) : s[i] \notin C}))

\* s.strip()
strip(s) == strip_chars(s, Whitespace)

\* s.split(): the maximal runs of non-whitespace characters
RECURSIVE split(_)
split(s) ==
  IF \A i \in 1..Len(s) : s[i] \in Whitespace
  THEN <<>>
  ELSE LET b == Min({i \in 1..Len(s) : s[i] \notin Whitespace})
           e == RunEndNot(s, b, Whitespace)
       IN <<SubSeq(s, b, e)>> \o split(From(s, e + 1))

\* sep.join(parts)
RECURSIVE join(_, _)
join(sep, parts) ==
  IF parts = <<>> THEN <<>>
  ELSE IF Len(parts) = 1 THEN parts[1]
  ELSE parts[1] \o sep \o join(sep, Tail(parts))

\* s.split(c) for a one-character c: the parts between the separators, empty ones kept
RECURSIVE split_on(_, _)
split_on(s, c) ==
  LET k == find(s, c, 1)
  IN IF k = 0 THEN <<s>>
     ELSE <<SubSeq(s, 1, k - 1)>> \o split_on(From(s, k + 1), c)

\* s.replace(old, '') for a non-empty old: every occurrence, left to right
RECURSIVE remove_all(_, _)
remove_all(s, old) ==
  IF s = <<>> THEN <<>>
  ELSE IF StartsWithAt(s, 1, old) THEN remove_all(From(s, Len(old) + 1), old)
  ELSE <<Head(s)>> \o remove_all(Tail(s), old)

----------------------------------------------------------------------------
(* Python values                                                           *)

\* an optional string: None or a str
NoneStr == [some |-> FALSE, s |-> <<>>]

SomeStr(s) == [some |-> TRUE, s |-> s]

\* a filter value: a scalar str or a list of str
StrVal(s) == [list |-> FALSE, s |-> s, items |-> <<>>]

ListVal(items) == [list |-> TRUE, s |-> <<>>, items |-> items]

\* a dict, in insertion order: a sequence of [k, v] with distinct keys
DictHas(d, key) == \E i \in 1..Len(d) : d[i].k = key

DictGet(d, key) == d[CHOOSE i \in 1..Len(d) : d[i].k = key].v

\* d[key] = value
DictSet(d, key, value) ==
  IF DictHas(d, key)
  THEN [d EXCEPT ![CHOOSE i \in 1..Len(d) : d[i].k = key] = [k |-> key, v |-> value]]
  ELSE Append(d, [k |-> key, v |-> value])

\* the outcome of a call: a returned value or a raised exception
Return(v) == [exc |-> "none", val |-> v]

Raise(e) == [exc |-> e, val |-> <<>>]

\* an exception that a call inside a handler's try block raises, with its
\* str(); NoFault: no call raises
NoFault == [raised |-> FALSE, message |-> <<>>]

Fault(message) == [raised |-> TRUE, message |-> message]

\* str(e) of the exceptions the methods of health_checker raise
str_exc(e) ==
  CASE e = "IndexError" -> <<"l","i","s","t"," ","i","n","d","e","x"," ","o","u","t"," ","o","f"," ","r","a","n","g","e">>
    [] e = "ZeroDivisionError" -> <<"d","i","v","i","s","i","o","n"," ","b","y"," ","z","e","r","o">>
    [] OTHER -> <<>>

----------------------------------------------------------------------------
(* AtlanCustomerHealthCheck.parse_professional_command                     *)

\* the result of the parser: None, or the dict {company_name, atlan_url, filters}
ParsedNone == [none |-> TRUE, company_name |-> <<>>, atlan_url |-> NoneStr, filters |-> <<>>]

Parsed(c, u, f) == [none |-> FALSE, company_name |-> c, atlan_url |-> u, filters |-> f]

\* the length of 'https://' or 'http://' at i, 0 when neither is there
SchemeLenAt(s, i) ==
  IF StartsWithAt(s, i, <<"h","t","t","p","s",":","/","/">>) THEN 8
  ELSE IF StartsWithAt(s, i, <<"h","t","t","p",":","/","/">>) THEN 7
  ELSE 0

\* url_pattern, a mutation: any host matches, '.atlan.com' is not required
UrlMatchesAnyHost(s, i) ==
  LET k == SchemeLenAt(s, i)
  IN /\ k > 0
     /\ i + k <= Len(s)
     /\ s[i + k] \in UrlHostChars

\* url_pattern matches at i: the scheme, one or more host characters, '.atlan.com'
UrlMatchesAt(s, i) ==
  LET k == SchemeLenAt(s, i)
  IN /\ k > 0
     /\ \E p \in (i + k + 1)..Len(s) :
           /\ StartsWithAt(s, p, <<".","a","t","l","a","n",".","c","o","m">>)
           /\ \A q \in (i + k)..(p - 1) : s[q] \in UrlHostChars

\* re.search(url_pattern, s): the leftmost match, which [^\s]* extends to the
\* next whitespace
url_search(s) ==
  IF \E i \in 1..Len(s) : UrlMatchesAt(s, i)
  THEN LET i == Min({j \in 1..Len(s) : UrlMatchesAt(s, j)})
       IN SomeStr(SubSeq(s, i, RunEndNot(s, i, Whitespace)))
  ELSE NoneStr

\* filter_pattern matches at i: a word run, ':', one or more value characters
FilterMatchesAt(s, i) ==
  /\ s[i] \in WordChars
  /\ LET w == RunEnd(s, i, WordChars)
     IN /\ w + 2 <= Len(s)
        /\ s[w + 1] = ":"
        /\ s[w + 2] \in FilterValueChars

\* a variant of filter_value that never splits: every value stays a scalar
filter_value_scalar(values) == StrVal(values)

\* filters[key] = values.split(',') if ',' in values else values
filter_value(values) ==
  IF Contains(values, <<",">>) THEN ListVal(split_on(values, ",")) ELSE StrVal(values)

\* the loop over re.finditer(filter_pattern, s), from index i on
RECURSIVE parse_filters(_, _, _)
parse_filters(s, i, filters) ==
  IF \E j \in i..Len(s) : FilterMatchesAt(s, j)
  THEN LET b == Min({j \in i..Len(s) : FilterMatchesAt(s, j)})
           w == RunEnd(s, b, WordChars)
           e == RunEnd(s, w + 2, FilterValueChars)
       IN parse_filters(s, e + 1,
            DictSet(filters, SubSeq(s, b, w), filter_value(SubSeq(s, w + 2, e))))
  ELSE filters

\* the second half of the parser: the URL, then the filters
parse_remaining(company_name, remaining) ==
  LET url_match == url_search(remaining)
      rest == IF url_match.some
              THEN strip(remove_all(remaining, url_match.s))
              ELSE remaining
  IN Return(Parsed(company_name, url_match, parse_filters(rest, 1, <<>>)))

\* the parser, a mutation: it keeps a filter from one call to the next, so
\* that every call after the first returns one filter more
parse_keeping_filters(command_text) ==
  Return(Parsed(command_text, NoneStr,
                IF \E i \in DOMAIN requests : requests[i].handler # "none"
                THEN <<[k |-> <<"i","n","d","u","s","t","r","y">>, v |-> StrVal(<<"r","e","t","a","i","l">>)]>>
                ELSE <<>>))

parse_professional_command(command_text) ==
  IF command_text = <<>> THEN Return(ParsedNone)
  ELSE IF StartsWithAt(command_text, 1, <<"\"">>) /\ find(command_text, "\"", 2) # 0
  THEN LET end_quote == find(command_text, "\"", 2)
       IN parse_remaining(SubSeq(command_text, 2, end_quote - 1),
                          strip(From(command_text, end_quote + 1)))
  ELSE LET parts == split(command_text)
       IN IF parts = <<>> THEN Raise("IndexError")
          ELSE parse_remaining(
                 IF StartsWithAt(command_text, 1, <<"\"">>)
                 THEN strip_chars(parts[1], {"\""})
                 ELSE parts[1],
                 join(<<" ">>, Tail(parts)))

----------------------------------------------------------------------------
(* AtlanCustomerHealthCheck.__init__                                       *)

finance == <<"f","i","n","a","n","c","e">>

healthcare == <<"h","e","a","l","t","h","c","a","r","e">>

construction == <<"c","o","n","s","t","r","u","c","t","i","o","n">>

retail == <<"r","e","t","a","i","l">>

technology == <<"t","e","c","h","n","o","l","o","g","y">>

manufacturing == <<"m","a","n","u","f","a","c","t","u","r","i","n","g">>

\* health_multiplier is kept in hundredths: 0.85 is 85
industry_regulations ==
  (finance :> [name |-> <<"F","i","n","a","n","c","i","a","l"," ","S","e","r","v","i","c","e","s">>,
               regulations |-> <<<<"S","O","X">>, <<"P","C","I"," ","D","S","S">>, <<"G","D","P","R">>, <<"C","C","P","A">>, <<"B","a","s","e","l"," ","I","I","I">>>>,
               health_multiplier |-> 85])
  @@ (healthcare :> [name |-> <<"H","e","a","l","t","h","c","a","r","e"," ","&"," ","L","i","f","e"," ","S","c","i","e","n","c","e","s">>,
               regulations |-> <<<<"H","I","P","A","A">>, <<"F","D","A"," ","2","1"," ","C","F","R"," ","P","a","r","t"," ","1","1">>, <<"G","D","P","R">>, <<"H","I","T","E","C","H">>>>,
               health_multiplier |-> 80])
  @@ (construction :> [name |-> <<"C","o","n","s","t","r","u","c","t","i","o","n"," ","&"," ","E","n","g","i","n","e","e","r","i","n","g">>,
               regulations |-> <<<<"O","S","H","A">>, <<"E","P","A">>, <<"I","S","O"," ","9","0","0","1">>, <<"L","E","E","D">>>>,
               health_multiplier |-> 90])
  @@ (retail :> [name |-> <<"R","e","t","a","i","l"," ","&"," ","C","o","n","s","u","m","e","r">>,
               regulations |-> <<<<"P","C","I"," ","D","S","S">>, <<"G","D","P","R">>, <<"C","C","P","A">>, <<"F","T","C"," ","G","u","i","d","e","l","i","n","e","s">>>>,
               health_multiplier |-> 88])
  @@ (technology :> [name |-> <<"T","e","c","h","n","o","l","o","g","y"," ","&"," ","S","o","f","t","w","a","r","e">>,
               regulations |-> <<<<"S","O","C"," ","2">>, <<"G","D","P","R">>, <<"C","C","P","A">>, <<"I","S","O"," ","2","7","0","0","1">>>>,
               health_multiplier |-> 92])
  @@ (manufacturing :> [name |-> <<"M","a","n","u","f","a","c","t","u","r","i","n","g"," ","&"," ","I","n","d","u","s","t","r","i","a","l">>,
               regulations |-> <<<<"I","S","O"," ","9","0","0","1">>, <<"O","S","H","A">>, <<"E","P","A">>, <<"F","D","A"," ","(","i","f"," ","a","p","p","l","i","c","a","b","l","e",")">>>>,
               health_multiplier |-> 87])

\* the criteria in the order the dict lists them, each with its weight
assessment_criteria ==
  << [k |-> "data_governance", weight |-> 25],
     [k |-> "data_quality", weight |-> 20],
     [k |-> "metadata_completeness", weight |-> 20],
     [k |-> "access_control", weight |-> 15],
     [k |-> "compliance_readiness", weight |-> 10],
     [k |-> "usage_optimization", weight |-> 10] >>

----------------------------------------------------------------------------
(* AtlanCustomerHealthCheck.detect_industry_professional                   *)

healthcare_terms == <<<<"h","e","a","l","t","h">>, <<"m","e","d","i","c","a","l">>, <<"h","o","s","p","i","t","a","l">>, <<"p","h","a","r","m","a">>, <<"b","i","o","t","e","c","h">>, <<"c","l","i","n","i","c","a","l">>>>

finance_terms == <<<<"b","a","n","k">>, <<"f","i","n","a","n","c","i","a","l">>, <<"c","a","p","i","t","a","l">>, <<"i","n","v","e","s","t","m","e","n","t">>, <<"s","e","c","u","r","i","t","i","e","s">>, <<"c","r","e","d","i","t">>>>

construction_terms == <<<<"c","o","n","s","t","r","u","c","t","i","o","n">>, <<"b","u","i","l","d","i","n","g">>, <<"e","n","g","i","n","e","e","r","i","n","g">>, <<"i","n","f","r","a","s","t","r","u","c","t","u","r","e">>>>

\* any(term in company_lower for term in terms)
any_term_in(terms, company_lower) ==
  \E i \in 1..Len(terms) : Contains(company_lower, terms[i])

\* a variant of the keyword chain that tries the finance terms first
detect_from_name_finance_first(company_name) ==
  LET company_lower == lower(company_name)
  IN IF any_term_in(finance_terms, company_lower) THEN finance
     ELSE IF any_term_in(healthcare_terms, company_lower) THEN healthcare
     ELSE IF any_term_in(construction_terms, company_lower) THEN construction
     ELSE technology

\* the keyword chain on the company name
detect_from_name(company_name) ==
  LET company_lower == lower(company_name)
  IN IF any_term_in(healthcare_terms, company_lower) THEN healthcare
     ELSE IF any_term_in(finance_terms, company_lower) THEN finance
     ELSE IF any_term_in(construction_terms, company_lower) THEN construction
     ELSE technology

\* a variant of the classifier that does not look at the filters
detect_by_name_only(company_name, filters) == Return(detect_from_name(company_name))

\* a variant of the classifier that returns the industry filter without looking
\* it up in industry_regulations
detect_trusting_filter(company_name, filters) ==
  IF DictHas(filters, <<"i","n","d","u","s","t","r","y">>)
  THEN LET v == DictGet(filters, <<"i","n","d","u","s","t","r","y">>)
       IN Return(lower(IF v.list THEN v.items[1] ELSE v.s))
  ELSE Return(detect_from_name(company_name))

detect_industry_professional(company_name, filters) ==
  IF DictHas(filters, <<"i","n","d","u","s","t","r","y">>)
  THEN LET v == DictGet(filters, <<"i","n","d","u","s","t","r","y">>)
       IN IF v.list /\ v.items = <<>> THEN Raise("IndexError")
          ELSE LET specified_industry == IF v.list THEN v.items[1] ELSE v.s
               IN IF lower(specified_industry) \in DOMAIN health_checker.industry_regulations
                  THEN Return(lower(specified_industry))
                  ELSE Return(detect_from_name(company_name))
  ELSE Return(detect_from_name(company_name))

----------------------------------------------------------------------------
(* str() of Python values, for strings without quotes or backslashes       *)

\* repr(s)
repr_str(s) == <<"'">> \o s \o <<"'">>

\* repr(v) of a filter value
RECURSIVE repr_items(_)
repr_items(items) ==
  IF items = <<>> THEN <<>>
  ELSE repr_str(Head(items))
       \o (IF Len(items) > 1 THEN <<","," ">> ELSE <<>>) \o repr_items(Tail(items))

repr_value(v) ==
  IF v.list THEN <<"[">> \o repr_items(v.items) \o <<"]">> ELSE repr_str(v.s)

\* str(v) of a filter value
str_value(v) == IF v.list THEN repr_value(v) ELSE v.s

\* str(filters)
RECURSIVE repr_entries(_)
repr_entries(d) ==
  IF d = <<>> THEN <<>>
  ELSE repr_str(Head(d).k) \o <<":"," ">> \o repr_value(Head(d).v)
       \o (IF Len(d) > 1 THEN <<","," ">> ELSE <<>>) \o repr_entries(Tail(d))

str_dict(d) == <<"{">> \o repr_entries(d) \o <<"}">>

----------------------------------------------------------------------------
(* AtlanCustomerHealthCheck.calculate_professional_health_score            *)
(*                                                                         *)
(* A component score is the exact fraction n/d, with d = total_assets for  *)
(* the two ratio scores and 1 for the others.  rnd holds the six outcomes  *)
(* of random.randint, and rnd.below says that the float product            *)
(* total_score * base_multiplier, whose exact value is an integer, was     *)
(* rounded to just below that integer (which CPython does for some         *)
(* inputs and not for others), so that int() yields one less.              *)

Frac(n, d) == [n |-> n, d |-> d]

\* min(95, x), a mutation: no cap
uncapped(x) == x

\* min(95, x) for a fraction x with a positive denominator
min95(x) == IF x.n > 95 * x.d THEN Frac(95 * x.d, x.d) ELSE x

\* int(x), a mutation: n/d rounded up to the next integer
int_ceiling(n, d) == IF n % d = 0 THEN n \div d ELSE n \div d + 1

\* int(x): truncation towards zero of n/d, d > 0
int_trunc(n, d) == IF n >= 0 THEN n \div d ELSE -((-n) \div d)

\* industry_regulations.get(industry, industry_regulations['technology'])
industry_info_of(industry) ==
  IF industry \in DOMAIN health_checker.industry_regulations
  THEN health_checker.industry_regulations[industry]
  ELSE health_checker.industry_regulations[technology]

\* 'quality' in filters or 'VERIFIED' in str(filters)
quality_bonus(filters) ==
  DictHas(filters, <<"q","u","a","l","i","t","y">>) \/ Contains(str_dict(filters), <<"V","E","R","I","F","I","E","D">>)

\* 'tags' in filters and any('PII' in str(tag) or 'CONFIDENTIAL' in str(tag).upper()
\*                           for tag in [filters['tags']])
access_bonus(filters) ==
  /\ DictHas(filters, <<"t","a","g","s">>)
  /\ LET tag == str_value(DictGet(filters, <<"t","a","g","s">>))
     IN Contains(tag, <<"P","I","I">>) \/ Contains(upper(tag), <<"C","O","N","F","I","D","E","N","T","I","A","L">>)

\* any(reg in str(filters).upper() for reg in industry_info['regulations'])
compliance_bonus(industry_info, filters) ==
  LET text == upper(str_dict(filters))
  IN \E i \in 1..Len(industry_info.regulations) :
        Contains(text, industry_info.regulations[i])

\* the six component scores, in the order of assessment_criteria
component_scores(industry_info, atlan_data, filters, rnd) ==
  LET t == atlan_data.total_assets
      quality_score == Min({95, 70 + rnd.quality})
      access_score == 75 + rnd.access
      compliance_score == 70 + rnd.compliance
  IN [data_governance |->
        min95(Frac(atlan_data.verified_assets * 100 + rnd.governance * t, t)),
      data_quality |->
        Frac(IF quality_bonus(filters) THEN quality_score + 5 ELSE quality_score, 1),
      metadata_completeness |->
        min95(Frac(atlan_data.tagged_assets * 100 + rnd.metadata * t, t)),
      access_control |->
        Frac(IF access_bonus(filters) THEN access_score + 5 ELSE access_score, 1),
      compliance_readiness |->
        Frac(Min({95, IF compliance_bonus(industry_info, filters)
                      THEN compliance_score + 10 ELSE compliance_score}), 1),
      usage_optimization |-> Frac(65 + rnd.usage, 1)]

\* t * 100 * total_score: the weighted sum over assessment_criteria, over the
\* common denominator t * 100
RECURSIVE weighted_sum(_, _, _)
weighted_sum(scores, t, i) ==
  IF i > Len(health_checker.assessment_criteria) THEN 0
  ELSE LET c == health_checker.assessment_criteria[i]
           x == scores[c.k]
       IN x.n * (t \div x.d) * c.weight + weighted_sum(scores, t, i + 1)

\* the letter grade, a mutation: every threshold is exclusive
grade_of_above(final_score) ==
  IF final_score > 90 THEN "A"
  ELSE IF final_score > 80 THEN "B+"
  ELSE IF final_score > 70 THEN "B"
  ELSE IF final_score > 60 THEN "C+"
  ELSE "C"

\* the letter grade of a final score
grade_of(final_score) ==
  IF final_score >= 90 THEN "A"
  ELSE IF final_score >= 80 THEN "B+"
  ELSE IF final_score >= 70 THEN "B"
  ELSE IF final_score >= 60 THEN "C+"
  ELSE "C"

\* whether total_score * base_multiplier is exactly an integer
product_is_integer(industry, atlan_data, filters, rnd) ==
  LET t == atlan_data.total_assets
      info == industry_info_of(industry)
  IN /\ t > 0
     /\ (weighted_sum(component_scores(info, atlan_data, filters, rnd), t, 1)
           * info.health_multiplier) % (t * 10000) = 0

calculate_professional_health_score(industry, atlan_data, filters, rnd) ==
  LET industry_info == industry_info_of(industry)
      t == atlan_data.total_assets
  IN IF t = 0 THEN Raise("ZeroDivisionError")
     ELSE LET scores == component_scores(industry_info, atlan_data, filters, rnd)
              num == weighted_sum(scores, t, 1) * industry_info.health_multiplier
              exact == int_trunc(num, t * 10000)
              final_score == IF rnd.below /\ num % (t * 10000) = 0
                             THEN exact - 1 ELSE exact
          IN Return([overall_score |-> final_score,
                     component_scores |-> scores,
                     industry_benchmark |-> industry_info,
                     grade |-> grade_of(final_score)])

----------------------------------------------------------------------------
(* HTTP requests and responses                                             *)

\* a header value: plain text, or 'v0=' followed by the hex digest of
\* HMAC-SHA256(key, msg).  The digest is kept as the pair it was computed
\* from: two digests are equal exactly when key and message are.
TextValue(t) == [text |-> t, hmac |-> FALSE, key |-> <<>>, msg |-> <<>>]

\* 'v0=' + hmac.new(key, msg, hashlib.sha256).hexdigest()
v0_signature(key, msg) == [text |-> <<"v","0","=">>, hmac |-> TRUE, key |-> key, msg |-> msg]

\* the text of a reply, by the template it was made from
Text(msg, name) == [msg |-> msg, name |-> name]

NoText == Text("", <<>>)

\* the JSON body of a response
ErrorBody(e) ==
  [json |-> "error", error |-> e, response_type |-> "", text |-> NoText, status |-> ""]

MessageBody(response_type, text) ==
  [json |-> "message", error |-> "", response_type |-> response_type, text |-> text,
   status |-> ""]

StatusBody(st) ==
  [json |-> "status", error |-> "", response_type |-> "", text |-> NoText, status |-> st]

EmptyBody ==
  [json |-> "", error |-> "", response_type |-> "", text |-> NoText, status |-> ""]

Response(code, body) == [statusCode |-> code, body |-> body]

\* the pairs of a form-encoded body: split on '&', then on the first '=',
\* '+' decoded to a space (bodies hold no percent escapes)
RECURSIVE plus_to_space(_)
plus_to_space(s) ==
  IF s = <<>> THEN <<>>
  ELSE <<IF Head(s) = "+" THEN " " ELSE Head(s)>> \o plus_to_space(Tail(s))

form_pair(field) ==
  LET k == find(field, "=", 1)
  IN IF k = 0 THEN [k |-> plus_to_space(field), v |-> <<>>]
     ELSE [k |-> plus_to_space(SubSeq(field, 1, k - 1)),
           v |-> plus_to_space(From(field, k + 1))]

form_pairs(body) ==
  LET fields == split_on(body, "&")
  IN [i \in 1..Len(fields) |-> form_pair(fields[i])]

\* request.form.get(key, ''): the first value of the key
form_get(body, key) ==
  LET pairs == form_pairs(body)
  IN IF \E i \in 1..Len(pairs) : pairs[i].k = key
     THEN pairs[Min({i \in 1..Len(pairs) : pairs[i].k = key})].v
     ELSE <<>>

\* parse_qs(body).get(key, [''])[0]: parse_qs drops the blank values
parse_qs_get(body, key) ==
  LET pairs == form_pairs(body)
  IN IF \E i \in 1..Len(pairs) : pairs[i].k = key /\ pairs[i].v # <<>>
     THEN pairs[Min({i \in 1..Len(pairs) : pairs[i].k = key /\ pairs[i].v # <<>>})].v
     ELSE <<>>

\* req.headers.get(name, ''): Flask looks header names up ignoring case
flask_header(headers, name) ==
  IF \E i \in 1..Len(headers) : lower(headers[i].k) = lower(name)
  THEN headers[Min({i \in 1..Len(headers) : lower(headers[i].k) = lower(name)})].v
  ELSE TextValue(<<>>)

\* headers.get(name, '') on the event's dict of headers
dict_header(headers, name) ==
  IF DictHas(headers, name) THEN DictGet(headers, name) ELSE TextValue(<<>>)

----------------------------------------------------------------------------
(* verify_slack_signature of src/app.py and src/.netlify/functions/app.py  *)

\* the seconds a request timestamp may differ from the current time
max_age == 300

DigitSeq == <<"0","1","2","3","4","5","6","7","8","9">>

digit_value(c) == (CHOOSE i \in 1..10 : DigitSeq[i] = c) - 1

RECURSIVE digits_value(_)
digits_value(s) ==
  IF s = <<>> THEN 0 ELSE digits_value(SubSeq(s, 1, Len(s) - 1)) * 10 + digit_value(s[Len(s)])

\* int(s) succeeds: whitespace around an optional sign and decimal digits
is_int_literal(s) ==
  LET t == strip(s)
      d == IF t # <<>> /\ t[1] \in {"+", "-"} THEN Tail(t) ELSE t
  IN d # <<>> /\ \A i \in 1..Len(d) : d[i] \in Digits

\* int(s)
int_of(s) ==
  LET t == strip(s)
  IN IF t[1] = "-" THEN -digits_value(Tail(t))
     ELSE IF t[1] = "+" THEN digits_value(Tail(t))
     ELSE digits_value(t)

Abs(x) == IF x < 0 THEN -x ELSE x

\* the digits of an int literal without its sign and its leading zeros
RECURSIVE significant_digits(_)
significant_digits(d) ==
  IF d # <<>> /\ d[1] \in {"+", "-", "0"} THEN significant_digits(Tail(d)) ELSE d

\* time.time() - request_timestamp raises OverflowError, "int too large to
\* convert to float": every int of more than 309 decimal digits is beyond
\* the largest float (about 1.8e308), none of fewer than 309 is
too_large_for_float(s) == Len(significant_digits(strip(s))) > 309

\* abs(time.time() - request_timestamp) > 300, when the subtraction returns
outside_max_age(s, now2) ==
  IF Len(significant_digits(strip(s))) > 9 THEN TRUE
  ELSE Abs(now2 - 2 * int_of(s)) > 2 * max_age

\* a variant of check_signature without the test of the timestamp's age
check_signature_any_age(secret, slack_request_timestamp, slack_signature, body, now2) ==
  IF secret = <<>> THEN FALSE
  ELSE IF slack_request_timestamp.text = <<>> \/ slack_signature.text = <<>> THEN FALSE
  ELSE IF ~is_int_literal(slack_request_timestamp.text) THEN FALSE
  ELSE v0_signature(secret, <<"v","0",":">> \o slack_request_timestamp.text \o <<":">> \o body)
          = slack_signature

\* The body of both copies of verify_slack_signature, after the two headers were
\* read.  now2 is time.time() in half seconds, so that the current time may
\* lie between two whole seconds.
check_signature(secret, slack_request_timestamp, slack_signature, body, now2) ==
  IF secret = <<>> THEN FALSE
  ELSE IF slack_request_timestamp.text = <<>> \/ slack_signature.text = <<>> THEN FALSE
  ELSE IF ~is_int_literal(slack_request_timestamp.text) THEN FALSE
  ELSE IF outside_max_age(slack_request_timestamp.text, now2) THEN FALSE
  ELSE v0_signature(secret, <<"v","0",":">> \o slack_request_timestamp.text \o <<":">> \o body)
          = slack_signature

\* Both copies of verify_slack_signature raise instead of returning: the two
\* headers are present, int() accepted the timestamp, and the subtraction
\* from time.time() overflows.  check_signature is what they return otherwise.
check_signature_raises(secret, slack_request_timestamp, slack_signature) ==
  /\ secret # <<>>
  /\ slack_request_timestamp.text # <<>>
  /\ slack_signature.text # <<>>
  /\ is_int_literal(slack_request_timestamp.text)
  /\ too_large_for_float(slack_request_timestamp.text)

\* a variant of verify_slack_signature that accepts every request
flask_verify_always(secret, req, now2) == TRUE

\* src/app.py
flask_verify_slack_signature(secret, req, now2) ==
  check_signature(secret,
                  flask_header(req.headers, <<"X","-","S","l","a","c","k","-","R","e","q","u","e","s","t","-","T","i","m","e","s","t","a","m","p">>),
                  flask_header(req.headers, <<"X","-","S","l","a","c","k","-","S","i","g","n","a","t","u","r","e">>),
                  req.body, now2)

\* src/.netlify/functions/app.py
netlify_verify_slack_signature(secret, headers, body, now2) ==
  check_signature(secret,
                  dict_header(headers, <<"x","-","s","l","a","c","k","-","r","e","q","u","e","s","t","-","t","i","m","e","s","t","a","m","p">>),
                  dict_header(headers, <<"x","-","s","l","a","c","k","-","s","i","g","n","a","t","u","r","e">>),
                  body, now2)

\* src/app.py: verify_slack_signature(request) raises
flask_verify_raises(secret, req) ==
  check_signature_raises(secret,
                         flask_header(req.headers, <<"X","-","S","l","a","c","k","-","R","e","q","u","e","s","t","-","T","i","m","e","s","t","a","m","p">>),
                         flask_header(req.headers, <<"X","-","S","l","a","c","k","-","S","i","g","n","a","t","u","r","e">>))

\* src/.netlify/functions/app.py: verify_slack_signature(headers, body) raises
netlify_verify_raises(secret, headers) ==
  check_signature_raises(secret,
                         dict_header(headers, <<"x","-","s","l","a","c","k","-","r","e","q","u","e","s","t","-","t","i","m","e","s","t","a","m","p">>),
                         dict_header(headers, <<"x","-","s","l","a","c","k","-","s","i","g","n","a","t","u","r","e">>))

\* what a call of verify_slack_signature comes to
verify_outcome(raises, returned) ==
  IF raises THEN Raise("OverflowError") ELSE Return(returned)

\* an exception that leaves a Flask view function: Flask answers 500 with
\* its own page, which is no JSON
internal_server_error == Response(500, EmptyBody)

\* an exception that leaves handler: the function returns no response
unhandled(e) == [statusCode |-> 0, body |-> EmptyBody, exc |-> e]

----------------------------------------------------------------------------
(* The handlers of src/app.py                                              *)

\* the reply to a command text, shared by both copies of the handler
setup_reply(command_text) ==
  IF command_text = <<>>
  THEN Response(200, MessageBody("ephemeral", Text("usage", <<>>)))
  ELSE LET parts == split(command_text)
           customer_name == IF parts # <<>> THEN parts[1] ELSE <<"U","n","k","n","o","w","n"," ","C","u","s","t","o","m","e","r">>
       IN Response(200, MessageBody("in_channel", Text("started", customer_name)))

\* the except branch of both copies of the handler: 500 and a fixed text
setup_error ==
  Response(500, MessageBody("ephemeral",
    Text("error", <<>>) @@ [content |-> <<"@"," ","A","n"," ","e","r","r","o","r"," ","o","c","c","u","r","r","e","d"," ","p","r","o","c","e","s","s","i","n","g"," ","y","o","u","r"," ","r","e","q","u","e","s","t">>]))

handle_atlan_setup(secret, req, now2, fault) ==
  IF flask_verify_raises(secret, req) THEN internal_server_error
  ELSE IF ~flask_verify_slack_signature(secret, req, now2)
  THEN Response(401, ErrorBody("Unauthorized"))
  ELSE IF fault.raised THEN setup_error
  ELSE setup_reply(strip(form_get(req.body, <<"t","e","x","t">>)))

handle_interactive(secret, req, now2) ==
  IF flask_verify_raises(secret, req) THEN internal_server_error
  ELSE IF ~flask_verify_slack_signature(secret, req, now2)
  THEN Response(401, ErrorBody("Unauthorized"))
  ELSE Response(200, StatusBody("ok"))

health_check == Response(200, StatusBody("healthy"))

----------------------------------------------------------------------------
(* handler of src/.netlify/functions/app.py                                *)

netlify_app_handler(secret, event, now2, fault) ==
  IF event.method = "OPTIONS" THEN Response(200, EmptyBody)
  ELSE IF event.path = <<"/","h","e","a","l","t","h">> /\ event.method = "GET" THEN Response(200, StatusBody("healthy"))
  ELSE IF event.path = <<"/">> /\ event.method = "GET" THEN Response(200, StatusBody("healthy"))
  ELSE IF event.path = <<"/","s","l","a","c","k","/","a","t","l","a","n","-","s","e","t","u","p">> /\ event.method = "POST"
  THEN IF netlify_verify_raises(secret, event.headers) THEN unhandled("OverflowError")
       ELSE IF ~netlify_verify_slack_signature(secret, event.headers, event.body, now2)
       THEN Response(401, ErrorBody("Unauthorized"))
       ELSE IF fault.raised THEN setup_error
       ELSE setup_reply(strip(parse_qs_get(event.body, <<"t","e","x","t">>)))
  ELSE IF event.path = <<"/","s","l","a","c","k","/","i","n","t","e","r","a","c","t","i","v","e">> /\ event.method = "POST"
  THEN IF netlify_verify_raises(secret, event.headers) THEN unhandled("OverflowError")
       ELSE IF ~netlify_verify_slack_signature(secret, event.headers, event.body, now2)
       THEN Response(401, ErrorBody("Unauthorized"))
       ELSE Response(200, StatusBody("ok"))
  ELSE Response(404, ErrorBody("Not found"))

----------------------------------------------------------------------------
(* slack_command of src/api/index.py                                       *)

\* the background thread the handler starts, with the variables it closes over
NoThread ==
  [started |-> FALSE, company_name |-> <<>>, industry |-> <<>>, atlan_url |-> NoneStr,
   filters |-> <<>>]

Thread(company_name, industry, atlan_url, filters) ==
  [started |-> TRUE, company_name |-> company_name, industry |-> industry,
   atlan_url |-> atlan_url, filters |-> filters]

\* the except branch: 500 and an ephemeral text that holds str(e).  ^ stands
\* for a backquote.
command_error(message) ==
  [response |->
     Response(500, MessageBody("ephemeral",
       Text("error", <<>>)
       @@ [content |-> <<"@"," ","*","*","P","r","o","f","e","s","s","i","o","n","a","l"," ","H","e","a","l","t","h"," ","C","h","e","c","k"," ","E","r","r","o","r","*","*",":"," ">> \o message
             \o <<"\\","n","\\","n","P","l","e","a","s","e"," ","t","r","y",":"," ","^","/","a","t","l","a","n","-","h","e","a","l","t","h"," ","\\","\"","C","o","m","p","a","n","y"," ","N","a","m","e","\\","\""," ","h","t","t","p","s",":","/","/","t","e","n","a","n","t",".","a","t","l","a","n",".","c","o","m"," ","i","n","d","u","s","t","r","y",":","f","i","n","a","n","c","e","^">>])),
   thread |-> NoThread]

\* str.title() of a filter key: a letter after a letter is lowered, any other
\* letter is raised
RECURSIVE title_from(_, _)
title_from(s, after_letter) ==
  IF s = <<>> THEN <<>>
  ELSE LET c == Head(s)
           letter == c \in LowerLetters \cup UpperLetters
       IN <<IF ~letter THEN c
            ELSE IF after_letter THEN lower_char(c) ELSE upper_char(c)>>
          \o title_from(Tail(s), letter)

title(s) == title_from(s, FALSE)

\* filter_summary: one '**Key**: value' entry for each filter
RECURSIVE filter_summary(_)
filter_summary(filters) ==
  IF filters = <<>> THEN <<>>
  ELSE LET f == Head(filters)
       IN <<<<"*","*">> \o title(f.k) \o <<"*","*",":"," ">>
             \o (IF f.v.list THEN join(<<","," ">>, f.v.items) ELSE f.v.s)>>
          \o filter_summary(Tail(filters))

\* [f"@ {f}" for f in filter_summary]
RECURSIVE bullets(_)
bullets(summary) ==
  IF summary = <<>> THEN <<>>
  ELSE <<<<"@"," ">> \o Head(summary)>> \o bullets(Tail(summary))

\* response_text: the text of the immediate response.  @ stands for each
\* emoji and for the bullet character.
response_text(industry_info, company_name, atlan_url, filters, user_name, current_time) ==
  LET summary == filter_summary(filters)
      regulations == industry_info.regulations
  IN <<"@"," ","*","*","P","r","o","f","e","s","s","i","o","n","a","l"," ","H","e","a","l","t","h"," ","C","h","e","c","k"," ","S","t","a","r","t","e","d"," ","f","o","r"," ">> \o company_name \o <<"*","*","\n","\n">>
     \o <<"@"," ","*","*","I","n","d","u","s","t","r","y","*","*",":"," ">> \o industry_info.name \o <<"\n">>
     \o <<"@"," ","*","*","R","e","g","u","l","a","t","i","o","n"," ","F","o","c","u","s","*","*",":"," ">>
     \o join(<<","," ">>, SubSeq(regulations, 1, Min({3, Len(regulations)}))) \o <<"\n">>
     \o <<"@"," ","*","*","A","t","l","a","n"," ","T","e","n","a","n","t","*","*",":"," ">>
     \o (IF atlan_url.some /\ atlan_url.s # <<>> THEN atlan_url.s ELSE <<"N","o","t"," ","s","p","e","c","i","f","i","e","d">>) \o <<"\n">>
     \o (IF summary # <<>> THEN <<"@"," ","*","*","F","i","l","t","e","r","s"," ","A","p","p","l","i","e","d","*","*",":">> ELSE <<>>) \o <<"\n">>
     \o (IF summary # <<>> THEN join(<<"\n">>, bullets(summary)) ELSE <<>>) \o <<"\n","\n">>
     \o <<"@"," ","*","*","P","r","o","c","e","s","s","i","n","g"," ","D","a","t","a",".",".",".","*","*"," ","\n">>
     \o <<"@"," ","*","*","P","r","o","f","e","s","s","i","o","n","a","l"," ","C","a","n","v","a","s"," ","d","e","l","i","v","e","r","a","b","l","e"," ","g","e","n","e","r","a","t","i","n","g",".",".",".","*","*","\n">>
     \o <<"@"," ","*","*","E","T","A","*","*",":"," ","3","0"," ","s","e","c","o","n","d","s"," ","|"," ","*","*","S","t","a","r","t","e","d","*","*",":"," ">> \o current_time
     \o <<" ","|"," ","*","*","B","y","*","*",":"," ","@">> \o user_name \o <<"\n","\n">>
     \o <<"@"," ","*","*","G","e","n","e","r","a","t","i","n","g","*","*",":"," ","I","n","d","u","s","t","r","y"," ","b","e","n","c","h","m","a","r","k","i","n","g",","," ","c","o","m","p","l","i","a","n","c","e"," ","r","o","a","d","m","a","p",","," ","R","O","I"," ","p","r","o","j","e","c","t","i","o","n","s","\n">>
     \o <<"@"," ","*","*","C","l","i","e","n","t","-","R","e","a","d","y"," ","A","s","s","e","s","s","m","e","n","t"," ","C","o","m","i","n","g"," ","U","p","!","*","*">>

slack_command(text_field, user_name, current_time, fault) ==
  LET command_text == strip(text_field)
  IN IF fault.raised THEN command_error(fault.message)
     ELSE IF command_text = <<>>
     THEN [response |-> Response(200, MessageBody("ephemeral", Text("usage", <<>>))),
           thread |-> NoThread]
     ELSE LET parsed == parse_professional_command(command_text)
          IN IF parsed.exc # "none" THEN command_error(str_exc(parsed.exc))
             ELSE IF parsed.val.none
             THEN [response |-> Response(200, MessageBody("ephemeral", Text("could_not_parse", <<>>))),
                   thread |-> NoThread]
             ELSE LET company_name == parsed.val.company_name
                      atlan_url == parsed.val.atlan_url
                      filters == parsed.val.filters
                      industry == detect_industry_professional(company_name, filters)
                  IN IF industry.exc # "none" THEN command_error(str_exc(industry.exc))
                     ELSE IF industry.val \notin DOMAIN health_checker.industry_regulations
                     THEN command_error(repr_str(industry.val))
                     ELSE [response |->
                             Response(200, MessageBody("in_channel",
                               Text("professional_started", company_name)
                               @@ [industry |-> industry.val, atlan_url |-> atlan_url,
                                   filters |-> filters,
                                   content |-> response_text(
                                     health_checker.industry_regulations[industry.val],
                                     company_name, atlan_url, filters,
                                     user_name, current_time)])),
                           thread |-> Thread(company_name, industry.val, atlan_url, filters)]

----------------------------------------------------------------------------
(* slack_command and run_professional_health_check, step by step           *)

\* what fetch_real_atlan_data returns when its simulation fails, and when the
\* tenant holds no asset
fallback_data == [total_assets |-> 200, verified_assets |-> 80, tagged_assets |-> 120]

empty_data == [total_assets |-> 0, verified_assets |-> 0, tagged_assets |-> 0]

\* the atlan_data of the except branch, a mutation: a snapshot without assets
except_data_without_assets ==
  [total_assets |-> 0, verified_assets |-> 0, tagged_assets |-> 0]

\* the atlan_data of the except branch of run_professional_health_check
except_data == [total_assets |-> 200, verified_assets |-> 60, tagged_assets |-> 120]

NoData == [total_assets |-> -1, verified_assets |-> -1, tagged_assets |-> -1]

\* a request that has not arrived: handler is where slack_command stands
\* ("none", "running" after Thread.start(), "returned"), pc where its thread
\* stands ("none", "fetch", "assess", "done"), loop the event loop of the thread
\* ("none", "open" after asyncio.new_event_loop(), "closed" after loop.close())
NoRequest ==
  [handler |-> "none", text |-> <<>>, user_name |-> <<>>, current_time |-> <<>>,
   response |-> Response(0, EmptyBody), thread |-> NoThread,
   pc |-> "none", branch |-> "try", atlan_data |-> NoData, loop |-> "none"]

\* the response of a request that returned, a mutation: the handler joins its
\* thread and answers with the assessment when the thread is done
joined_response(r) ==
  IF r.pc = "done"
  THEN Response(200, MessageBody("in_channel", Text("assessment", r.thread.company_name)))
  ELSE slack_command(r.text, r.user_name, r.current_time, NoFault).response

\* the response the handler returns after it started the thread: built from
\* the variables of the request alone
immediate_response(r) ==
  slack_command(r.text, r.user_name, r.current_time, NoFault).response

\* the variables of a thread, a mutation: module-level variables that every
\* request overwrites, so that a thread reads those of the first request
\* that still holds them
shared_variables(reqs, i) ==
  LET started == {j \in DOMAIN reqs : reqs[j].thread.started}
  IN reqs[CHOOSE j \in started : \A k \in started : j <= k].thread
       @@ [user_name |-> reqs[CHOOSE j \in started : \A k \in started : j <= k].user_name]

\* the variables run_professional_health_check reads: the locals of the call
\* of slack_command that defined it
closure_variables(reqs, i) ==
  reqs[i].thread @@ [user_name |-> reqs[i].user_name]

\* print(f"... {str(e)}")
error_line(i) == [request |-> i, kind |-> "error"]

\* print(canvas_content): the arguments of generate_professional_canvas
canvas_line(i, closure, atlan_data, health_scores) ==
  [request |-> i, kind |-> "canvas", company_name |-> closure.company_name,
   industry |-> closure.industry, atlan_url |-> closure.atlan_url,
   filters |-> closure.filters, user_name |-> closure.user_name,
   atlan_data |-> atlan_data, overall_score |-> health_scores.overall_score]

----------------------------------------------------------------------------
(* handle_atlan_setup of src/index.py and handler of src/api/slack.py      *)

\* src/index.py: no signature is verified
index_handle_atlan_setup(text_field, fault) ==
  LET command_text == strip(text_field)
  IN IF fault.raised THEN Response(500, ErrorBody(fault.message))
     ELSE IF command_text = <<>>
     THEN Response(200, MessageBody("ephemeral", Text("usage", <<>>)))
     ELSE LET parts == split(command_text)
              customer_name == IF parts # <<>> THEN parts[1] ELSE <<"U","n","k","n","o","w","n"," ","C","u","s","t","o","m","e","r">>
          IN Response(200, MessageBody("in_channel", Text("started", customer_name)))

\* src/api/slack.py: no try block, an exception leaves the handler
slack_handler(method, text_field, fault) ==
  IF method = "POST"
  THEN LET command_text == strip(text_field)
       IN IF fault.raised THEN Raise("Exception") @@ [message |-> fault.message]
          ELSE IF command_text = <<>>
          THEN Return(Response(200, MessageBody("ephemeral", Text("usage", <<>>))))
          ELSE LET parts == split(command_text)
                   customer_name == IF parts # <<>> THEN parts[1] ELSE <<"U","n","k","n","o","w","n"," ","C","u","s","t","o","m","e","r">>
               IN Return(Response(200, MessageBody("in_channel", Text("started", customer_name))))
  ELSE Return(Response(200, StatusBody("healthy")))

----------------------------------------------------------------------------
(* handler of src/netlify/functions/slack-command.py                       *)
(*                                                                         *)
(* The report (canvas_content) is the sequence of the lengths of its lines *)
(* (canvas_content.split('\n')), so a part of the report is a part of that *)
(* sequence.  The functions of the health_checker module are the           *)
(* handler's environment: env holds what they return, or that one of them  *)
(* raises.  In the literal texts @ stands for the one emoji character and  *)
(* ^ for a backquote.                                                      *)

\* Slack message limit
max_length == 3800

\* len() of the usage text
usage_text_length == 292

\* len() of the 'Could not parse command' text
parse_error_text_length == 76

RECURSIVE Sum(_)
Sum(ns) == IF ns = <<>> THEN 0 ELSE Head(ns) + Sum(Tail(ns))

\* len('\n'.join(lines))
joined_length(lines) == Sum(lines) + Len(lines) - 1

\* len(str(n)) for n >= 0
RECURSIVE decimal_length(_)
decimal_length(n) == IF n < 10 THEN 1 ELSE 1 + decimal_length(n \div 10)

\* the loop of first_chunk, a mutation: it stops at a line that fills the
\* chunk to max_length exactly
RECURSIVE take_lines_below_limit(_, _, _)
take_lines_below_limit(lines, taken, length) ==
  IF taken < Len(lines) /\ ~(length + lines[taken + 1] + 1 >= max_length)
  THEN take_lines_below_limit(lines, taken + 1, length + lines[taken + 1] + 1)
  ELSE [taken |-> taken, length |-> length]

\* the loop that fills first_chunk: the number of lines taken and len(first_chunk)
RECURSIVE take_lines(_, _, _)
take_lines(lines, taken, length) ==
  IF taken < Len(lines) /\ ~(length + lines[taken + 1] + 1 > max_length)
  THEN take_lines(lines, taken + 1, length + lines[taken + 1] + 1)
  ELSE [taken |-> taken, length |-> length]

\* a reply text: its template, the lines of the report in it, and its len()
ReplyText(msg, lines, length) == [msg |-> msg, lines |-> lines, length |-> length]

\* the response_body for a report
report_reply(company_name, lines, overall_score) ==
  IF joined_length(lines) <= max_length
  THEN ReplyText("complete", lines,
         Len(<<"@"," ","*","*","P","r","o","f","e","s","s","i","o","n","a","l"," ","A","s","s","e","s","s","m","e","n","t"," ","C","o","m","p","l","e","t","e","*","*","\n","\n","^","^","^","\n">>)
         + joined_length(lines) + Len(<<"\n","^","^","^">>))
  ELSE LET first_chunk == take_lines(lines, 0, 0)
       IN ReplyText("first_chunk", SubSeq(lines, 1, first_chunk.taken),
            Len(<<"@"," ","*","*">>) + Len(company_name) + Len(<<" ","-"," ","H","e","a","l","t","h"," ","A","s","s","e","s","s","m","e","n","t","*","*","\n","\n","^","^","^","\n">>)
            + first_chunk.length
            + Len(<<"\n","^","^","^","\n","\n","*","H","e","a","l","t","h"," ","S","c","o","r","e",":"," ">>) + decimal_length(overall_score) + Len(<<"/","1","0","0","*">>))

slack_command_handler(event, env) ==
  IF event.method = "OPTIONS" THEN Response(200, EmptyBody)
  ELSE LET command_text == strip(parse_qs_get(event.body, <<"t","e","x","t">>))
       IN IF command_text = <<>>
          THEN Response(200, MessageBody("ephemeral",
                 ReplyText("usage", <<>>, usage_text_length)))
          ELSE IF env.raises
          THEN Response(200, MessageBody("ephemeral",
                 ReplyText("error", <<>>,
                   Len(<<"@"," ","*","*","E","r","r","o","r","*","*",":"," ">>) + Len(env.message)
                   + Len(<<"\n","\n","P","l","e","a","s","e"," ","t","r","y"," ","a","g","a","i","n"," ","o","r"," ","c","o","n","t","a","c","t"," ","s","u","p","p","o","r","t",".">>))
                 @@ [content |-> <<"@"," ","*","*","E","r","r","o","r","*","*",":"," ">> \o env.message
                       \o <<"\n","\n","P","l","e","a","s","e"," ","t","r","y"," ","a","g","a","i","n"," ","o","r"," ","c","o","n","t","a","c","t"," ","s","u","p","p","o","r","t",".">>]))
          ELSE IF env.parsed_none
          THEN Response(200, MessageBody("ephemeral",
                 ReplyText("could_not_parse", <<>>, parse_error_text_length)))
          ELSE Response(200, MessageBody("in_channel",
                 report_reply(env.company_name, env.canvas_lines, env.overall_score)))

----------------------------------------------------------------------------
(* The data-fetch functions: fetch_atlan_data and fetch_real_atlan_data of *)
(* src/api/index.py, fetch_tenant_overview of src/atlan_mcp_integration.py *)
(*                                                                         *)
(* A rate (random.uniform, verification_rate, verified_percentage) is a    *)
(* whole percentage, and int(total * rate) is (total * percent) \div 100.  *)

\* the asset snapshot a fetch function returns
AtlanData(tenant_url, total_assets, verified_assets, tagged_assets, data_source, error) ==
  [tenant_url |-> tenant_url, total_assets |-> total_assets,
   verified_assets |-> verified_assets, tagged_assets |-> tagged_assets,
   data_source |-> data_source, error |-> error]

\* len([a for a in assets if a.get('certificate_status') == 'VERIFIED'])
verified_count(assets) ==
  Cardinality({i \in 1..Len(assets) : assets[i].certificate_status = <<"V","E","R","I","F","I","E","D">>})

\* len([a for a in assets if a.get('asset_tags')])
tagged_count(assets) ==
  Cardinality({i \in 1..Len(assets) : assets[i].asset_tags # <<>>})

\* fetch_real_atlan_data, the branch of real MCP data
real_atlan_data(atlan_url, assets) ==
  AtlanData(atlan_url, Len(assets), verified_count(assets), tagged_count(assets),
            <<"R","E","A","L","_","A","T","L","A","N","_","D","A","T","A">>, NoneStr)

\* fetch_real_atlan_data, the else branch: total_assets is chosen from
\* str(filters).lower(), then str(filters).get('certificate', '') raises, a
\* str having no attribute get, before a count is computed
industry_simulation(atlan_url, filters) ==
  LET text == lower(str_dict(filters))
      total_assets == IF Contains(text, <<"f","i","n","a","n","c","e">>) THEN 340
                      ELSE IF Contains(text, <<"h","e","a","l","t","h","c","a","r","e">>) THEN 280
                      ELSE IF Contains(text, <<"c","o","n","s","t","r","u","c","t","i","o","n">>) THEN 180
                      ELSE 250
  IN Raise("AttributeError")

\* fetch_real_atlan_data: search_results is what call_atlan_mcp_tool returned
fetch_real_atlan_data(atlan_url, filters, search_results) ==
  LET outcome == IF search_results.data_source = <<"R","E","A","L","_","M","C","P","_","D","I","R","E","C","T","_","C","A","L","L">>
                 THEN Return(real_atlan_data(atlan_url, search_results.assets))
                 ELSE industry_simulation(atlan_url, filters)
  IN IF outcome.exc = "none" THEN outcome.val
     ELSE AtlanData(atlan_url, fallback_data.total_assets, fallback_data.verified_assets,
                    fallback_data.tagged_assets, <<"F","A","L","L","B","A","C","K","_","D","A","T","A">>, NoneStr)

\* cert_status.upper() in ['VERIFIED', 'DRAFT', 'DEPRECATED']: a list has no upper
certificate_status_of(filters) ==
  IF ~DictHas(filters, <<"c","e","r","t","i","f","i","c","a","t","e">>) THEN Return(NoneStr)
  ELSE LET cert_status == DictGet(filters, <<"c","e","r","t","i","f","i","c","a","t","e">>)
       IN IF cert_status.list THEN Raise("AttributeError")
          ELSE IF upper(cert_status.s) \in {<<"V","E","R","I","F","I","E","D">>, <<"D","R","A","F","T">>, <<"D","E","P","R","E","C","A","T","E","D">>}
               THEN Return(SomeStr(upper(cert_status.s)))
               ELSE Return(NoneStr)

\* AtlanCustomerHealthCheck.fetch_atlan_data: draw holds the outcomes of the
\* random calls of the try block and of the except branch
fetch_atlan_data(atlan_url, filters, draw) ==
  LET certificate_status == certificate_status_of(filters)
  IN IF certificate_status.exc = "none"
     THEN AtlanData(atlan_url, draw.total_assets,
                    (draw.total_assets * draw.verified_rate) \div 100,
                    (draw.total_assets * draw.tagged_rate) \div 100,
                    NoneStr, NoneStr)
     ELSE AtlanData(atlan_url, draw.fallback_total, draw.fallback_verified,
                    draw.fallback_tagged, NoneStr, SomeStr(<<"'","l","i","s","t","'"," ","o","b","j","e","c","t"," ","h","a","s"," ","n","o"," ","a","t","t","r","i","b","u","t","e"," ","'","u","p","p","e","r","'">>))

\* connection_names[0].lower(): parts of the qualified name pattern
connection_pattern_of(filters) ==
  IF ~DictHas(filters, <<"c","o","n","n","e","c","t","i","o","n","s">>) THEN Return(NoneStr)
  ELSE LET connections == DictGet(filters, <<"c","o","n","n","e","c","t","i","o","n","s">>)
           connection_names == IF connections.list THEN connections.items
                               ELSE <<connections.s>>
       IN IF connection_names = <<>> THEN Raise("IndexError")
          ELSE Return(SomeStr(<<"d","e","f","a","u","l","t","/">> \o lower(connection_names[1]) \o <<"*">>))

\* AtlanMCPIntegration._fallback_data
overview_fallback_data ==
  [total_assets |-> 500, verified_assets |-> 200, tagged_assets |-> 300,
   error |-> SomeStr(<<"M","C","P"," ","c","o","n","n","e","c","t","i","o","n"," ","f","a","i","l","e","d",","," ","u","s","i","n","g"," ","f","a","l","l","b","a","c","k"," ","d","a","t","a">>)]

\* sum(conn['asset_count'] for conn in connections)
overview_total_assets == 1247 + 589 + 156

\* AtlanMCPIntegration._simulate_mcp_calls: its tenant_summary
simulate_mcp_calls(has_tags, certificate_status) ==
  LET verified_percentage == IF certificate_status = SomeStr(<<"V","E","R","I","F","I","E","D">>) THEN 95 ELSE 45
      tagged_percentage == IF has_tags THEN 85 ELSE 62
  IN [total_assets |-> overview_total_assets,
      verified_assets |-> (overview_total_assets * verified_percentage) \div 100,
      tagged_assets |-> (overview_total_assets * tagged_percentage) \div 100,
      error |-> NoneStr]

\* fetch_tenant_overview, a mutation: without its except clause
fetch_tenant_overview_uncaught(filters) ==
  IF filters = <<>> THEN Return(simulate_mcp_calls(FALSE, NoneStr))
  ELSE LET pattern == connection_pattern_of(filters)
           certificate_status == certificate_status_of(filters)
       IN IF pattern.exc # "none" THEN pattern
          ELSE IF certificate_status.exc # "none" THEN certificate_status
          ELSE Return(simulate_mcp_calls(DictHas(filters, <<"t","a","g","s">>), certificate_status.val))

\* AtlanMCPIntegration.fetch_tenant_overview; filters = <<>> stands for None
\* and for an empty dict
fetch_tenant_overview(filters) ==
  IF filters = <<>> THEN Return(simulate_mcp_calls(FALSE, NoneStr))
  ELSE LET pattern == connection_pattern_of(filters)
           certificate_status == certificate_status_of(filters)
       IN IF pattern.exc # "none" \/ certificate_status.exc # "none"
          THEN Return(overview_fallback_data)
          ELSE Return(simulate_mcp_calls(DictHas(filters, <<"t","a","g","s">>), certificate_status.val))

----------------------------------------------------------------------------
(* Inputs                                                                  *)

\* the most key:value tokens in a command text
MaxFilters == 2

\* the largest asset count of a snapshot
MaxAssets == 2

SeqsUpTo(S, n) == UNION {[1..k -> S] : k \in 0..n}

QuotedNames == {<<"A","c","m","e"," ","C","o">>, <<"G","e","n","e","r","a","l"," ","H","o","s","p","i","t","a","l">>, <<>>}

BareNames == {<<"T","e","c","h","C","o","r","p">>, <<"M","e","g","a","B","a","n","k">>}

TenantUrls == {<<"h","t","t","p","s",":","/","/","a","c","m","e",".","a","t","l","a","n",".","c","o","m">>, <<"h","t","t","p",":","/","/","a","-","b",".","x",".","a","t","l","a","n",".","c","o","m">>}

FilterTokens ==
  { [key |-> <<"i","n","d","u","s","t","r","y">>, value |-> <<"r","e","t","a","i","l">>],
    [key |-> <<"i","n","d","u","s","t","r","y">>, value |-> <<"F","i","n","a","n","c","e">>],
    [key |-> <<"t","a","g","s">>, value |-> <<"P","I","I",",","S","O","X">>],
    [key |-> <<"c","e","r","t","i","f","i","c","a","t","e">>, value |-> <<"V","E","R","I","F","I","E","D">>],
    [key |-> <<"a","s","s","e","t","_","t","y","p","e">>, value |-> <<"v","1",".","2","-","x">> ] }

\* command texts that are empty or hold whitespace only
BlankTexts == {<<>>, <<" ">>, <<" ","\t"," ">>}

\* what follows a double quote that is never closed: two words, or a word
\* and a URL of another host
OpenNames == {<<"O","p","e","n"," ","C","o">>, <<"O","p","e","n"," ","h","t","t","p",":","/","/","x",".","e","x","a","m","p","l","e",".","c","o","m">>}

\* a command: how the company name is written, the name, the URL, the tokens
Commands ==
  [form : {"quoted"}, name : QuotedNames, url : {NoneStr} \cup {SomeStr(u) : u \in TenantUrls},
   tokens : SeqsUpTo(FilterTokens, MaxFilters)]
  \cup
  [form : {"bare"}, name : BareNames, url : {NoneStr} \cup {SomeStr(u) : u \in TenantUrls},
   tokens : SeqsUpTo(FilterTokens, MaxFilters)]
  \cup
  [form : {"open"}, name : OpenNames, url : {NoneStr} \cup {SomeStr(u) : u \in TenantUrls},
   tokens : SeqsUpTo(FilterTokens, MaxFilters)]
  \cup
  [form : {"blank"}, name : BlankTexts, url : {NoneStr}, tokens : {<<>>}]

\* the text of a command: the name, the URL and the tokens, one space between them
RECURSIVE TokensText(_)
TokensText(tokens) ==
  IF tokens = <<>> THEN <<>>
  ELSE <<" ">> \o Head(tokens).key \o <<":">> \o Head(tokens).value \o TokensText(Tail(tokens))

CommandText(c) ==
  (CASE c.form = "quoted" -> <<"\"">> \o c.name \o <<"\"">>
     [] c.form = "open" -> <<"\"">> \o c.name
     [] OTHER -> c.name)
  \o (IF c.url.some THEN <<" ">> \o c.url.s ELSE <<>>)
  \o TokensText(c.tokens)

ClassifierNames ==
  {<<"C","i","t","y"," ","H","o","s","p","i","t","a","l">>, <<"M","e","g","a","B","a","n","k">>, <<"H","e","a","l","t","h"," ","B","a","n","k">>, <<"M","e","d","i","c","a","l"," ","C","o","n","s","t","r","u","c","t","i","o","n">>,
   <<"C","a","p","i","t","a","l"," ","B","u","i","l","d","i","n","g"," ","C","o">>, <<"A","p","e","x"," ","E","N","G","I","N","E","E","R","I","N","G">>, <<"A","c","m","e"," ","C","o">>, <<>>}

ClassifierFilters ==
  { <<>>,
    <<[k |-> <<"i","n","d","u","s","t","r","y">>, v |-> StrVal(<<"r","e","t","a","i","l">>)]>>,
    <<[k |-> <<"i","n","d","u","s","t","r","y">>, v |-> StrVal(<<"M","a","n","u","f","a","c","t","u","r","i","n","g">>)]>>,
    <<[k |-> <<"i","n","d","u","s","t","r","y">>, v |-> StrVal(<<"b","o","g","u","s">>)]>>,
    <<[k |-> <<"i","n","d","u","s","t","r","y">>, v |-> ListVal(<<<<"F","I","N","A","N","C","E">>, <<"r","e","t","a","i","l">>>>)]>>,
    <<[k |-> <<"i","n","d","u","s","t","r","y">>, v |-> ListVal(<<<<>>, <<"r","e","t","a","i","l">>>>)]>>,
    <<[k |-> <<"t","a","g","s">>, v |-> StrVal(<<"r","e","t","a","i","l">>)]>> }

\* the industries a caller passes to the scorer: the six known ones and an unknown one
ScorerIndustries == DOMAIN industry_regulations \cup {<<"e","n","e","r","g","y">>}

Snapshots ==
  [total_assets : 0..MaxAssets, verified_assets : 0..MaxAssets, tagged_assets : 0..MaxAssets]

ScorerFilters ==
  { <<>>,
    <<[k |-> <<"c","e","r","t","i","f","i","c","a","t","e">>, v |-> StrVal(<<"V","E","R","I","F","I","E","D">>)],
      [k |-> <<"t","a","g","s">>, v |-> ListVal(<<<<"P","I","I">>, <<"S","O","X">>>>)]>>,
    <<[k |-> <<"c","e","r","t","i","f","i","c","a","t","e">>, v |-> StrVal(<<"V","E","R","I","F","I","E","D">>)],
      [k |-> <<"t","a","g","s">>, v |-> ListVal(<<<<"P","I","I">>, <<"G","D","P","R">>>>)]>>,
    <<[k |-> <<"t","a","g","s">>, v |-> StrVal(<<"H","I","P","A","A">>)]>> }

\* the outcomes of the six random.randint calls: the low end of every range,
\* the high end of every range, each of these with one call at its other
\* end, and one outcome inside the ranges
JitterLow ==
  [governance |-> -5, quality |-> 0, metadata |-> -3, access |-> 0, compliance |-> 0,
   usage |-> 0, below |-> FALSE]

JitterHigh ==
  [governance |-> 10, quality |-> 20, metadata |-> 8, access |-> 15, compliance |-> 20,
   usage |-> 25, below |-> FALSE]

JitterInside ==
  [governance |-> -3, quality |-> 7, metadata |-> 8, access |-> 6, compliance |-> 1,
   usage |-> 11, below |-> FALSE]

JitterCalls == {"governance", "quality", "metadata", "access", "compliance", "usage"}

Jitters ==
  {JitterLow, JitterHigh, JitterInside}
  \cup {[JitterLow EXCEPT ![f] = JitterHigh[f]] : f \in JitterCalls}
  \cup {[JitterHigh EXCEPT ![f] = JitterLow[f]] : f \in JitterCalls}

\* the user_name form field: the default, or a name
UserNames == {<<"U","n","k","n","o","w","n"," ","U","s","e","r">>, <<"t","e","s","t","u","s","e","r">>}

\* datetime.now().strftime("%I:%M %p")
Times == {<<"0","9",":","0","5"," ","A","M">>, <<"1","1",":","5","9"," ","P","M">>}

\* the user_name of the i-th request
UserNameOf(i) == IF i % 2 = 1 THEN <<"t","e","s","t","u","s","e","r">> ELSE <<"U","n","k","n","o","w","n"," ","U","s","e","r">>

\* the time at which the i-th request is answered
TimeOf(i) == IF i % 2 = 1 THEN <<"0","9",":","0","5"," ","A","M">> ELSE <<"1","1",":","5","9"," ","P","M">>

\* the largest final score that is graded
MaxScore == 100

\* the final scores that are graded
FinalScores == (0 - MaxScore)..MaxScore

\* the most requests in progress at once
MaxRequests == 2

RequestIds == 1..MaxRequests

\* the command texts of concurrent requests
ConcurrentTexts ==
  {<<"M","e","g","a","B","a","n","k"," ","t","a","g","s",":","P","I","I">>,
   <<"T","e","c","h","C","o","r","p">>, <<" ">>}

\* what fetch_real_atlan_data does: it returns its fallback data, it returns
\* the counts of a tenant without assets, or the event loop raises
FetchOutcomes == {"fallback", "empty", "raises"}

\* the current time, in whole seconds
Now == 1000

\* the most lines of a report
MaxLines == 3

\* str(n) for n >= 0
RECURSIVE str_int(_)
str_int(n) ==
  IF n < 10 THEN <<DigitSeq[n + 1]>>
  ELSE str_int(n \div 10) \o <<DigitSeq[(n % 10) + 1]>>

\* SLACK_SIGNING_SECRET: not configured, or configured
SigningSecrets == {<<>>, <<"s","3","c","r","e","t">>}

\* time.time() in half seconds: on the second, or half a second later
Clock == {2 * Now, 2 * Now + 1}

\* the X-Slack-Request-Timestamp header: missing, not a number, the decimal
\* text of a time far in the future (1 and 400 zeros), or the decimal text of
\* a time around the current one
Timestamps ==
  { [kind |-> "missing", seconds |-> 0, text |-> <<>>],
    [kind |-> "text", seconds |-> 0, text |-> <<"a","b","c">>],
    [kind |-> "huge", seconds |-> 0, text |-> <<"1">> \o [i \in 1..400 |-> "0"]] }
  \cup
  { [kind |-> "seconds", seconds |-> t, text |-> str_int(t)] :
      t \in {Now - max_age - 1, Now - max_age, Now, Now + max_age, Now + max_age + 1} }

\* the X-Slack-Signature header: missing, the HMAC under the configured secret,
\* the HMAC under another key, the HMAC of another body, or no HMAC at all
Signatures == {"missing", "correct", "other_key", "other_body", "unsigned"}

\* form-encoded request bodies
Bodies ==
  {<<"t","e","x","t","=","+">>, <<"t","e","x","t","=","D","e","m","o","+","C","o","r","p","+","h","t","t","p","s",":","/","/","d","e","m","o",".","a","t","l","a","n",".","c","o","m">>, <<"u","s","e","r","_","i","d","=","U","1">>,
   <<"t","e","x","t","=","\"","D","e","m","o","+","C","o","r","p","\"","+","h","t","t","p","s",":","/","/","d","e","m","o",".","a","t","l","a","n",".","c","o","m">>, <<"t","e","x","t","=","&","t","e","x","t","=","D","e","m","o">>}

\* a request: its two signature headers, its body, and how the header names are cased
Requests ==
  [timestamp : Timestamps, signature : Signatures, body : Bodies,
   names : {"canonical", "lower"}]

\* the exceptions raised inside a try block
Faults == {NoFault, Fault(<<"b","o","o","m">>)}

\* an exception is raised only while a request timed now is processed: the
\* other requests differ in the signature check, which runs before the try
FaultsOf(r) ==
  IF r.timestamp.kind = "seconds" /\ r.timestamp.seconds = Now THEN Faults ELSE {NoFault}

\* the text form field of a request to src/index.py or src/api/slack.py
TextFields == {<<>>, <<" ">>, <<"D","e","m","o"," ","C","o","r","p"," ","h","t","t","p","s",":","/","/","d","e","m","o",".","a","t","l","a","n",".","c","o","m">>, <<" ","\"","D","e","m","o"," ","C","o","r","p","\""," ">>}

SignatureOf(secret, r) ==
  CASE r.signature = "correct" ->
         v0_signature(secret, <<"v","0",":">> \o r.timestamp.text \o <<":">> \o r.body)
    [] r.signature = "other_key" ->
         v0_signature(<<"g","u","e","s","s">>, <<"v","0",":">> \o r.timestamp.text \o <<":">> \o r.body)
    [] r.signature = "other_body" ->
         v0_signature(secret, <<"v","0",":">> \o r.timestamp.text \o <<":">> \o <<"t","e","x","t","=","o","t","h","e","r">>)
    [] OTHER -> TextValue(<<"v","0","=","a","b","c">>)

HeaderName(r, name) == IF r.names = "lower" THEN lower(name) ELSE name

\* the headers of a request
Headers(secret, r) ==
  (IF r.timestamp.kind = "missing" THEN <<>>
   ELSE <<[k |-> HeaderName(r, <<"X","-","S","l","a","c","k","-","R","e","q","u","e","s","t","-","T","i","m","e","s","t","a","m","p">>),
           v |-> TextValue(r.timestamp.text)]>>)
  \o
  (IF r.signature = "missing" THEN <<>>
   ELSE <<[k |-> HeaderName(r, <<"X","-","S","l","a","c","k","-","S","i","g","n","a","t","u","r","e">>), v |-> SignatureOf(secret, r)]>>)

\* the @app.route table of src/app.py
app_routes ==
  { [path |-> <<"/","s","l","a","c","k","/","a","t","l","a","n","-","s","e","t","u","p">>, method |-> "POST", view |-> "handle_atlan_setup"],
    [path |-> <<"/","s","l","a","c","k","/","i","n","t","e","r","a","c","t","i","v","e">>, method |-> "POST", view |-> "handle_interactive"],
    [path |-> <<"/","h","e","a","l","t","h">>, method |-> "GET", view |-> "health_check"],
    [path |-> <<"/">>, method |-> "GET", view |-> "health_check"] }

\* the view function of a route
view_function(view, secret, req, now2, fault) ==
  CASE view = "handle_atlan_setup" -> handle_atlan_setup(secret, req, now2, fault)
    [] view = "handle_interactive" -> handle_interactive(secret, req, now2)
    [] OTHER -> health_check

\* the path and method of the events the Netlify function receives
NetlifyRoutes ==
  { [path |-> <<"/","s","l","a","c","k","/","a","t","l","a","n","-","s","e","t","u","p">>, method |-> "POST"],
    [path |-> <<"/","s","l","a","c","k","/","i","n","t","e","r","a","c","t","i","v","e">>, method |-> "POST"],
    [path |-> <<"/","h","e","a","l","t","h">>, method |-> "GET"],
    [path |-> <<"/">>, method |-> "GET"],
    [path |-> <<"/","s","l","a","c","k","/","a","t","l","a","n","-","s","e","t","u","p">>, method |-> "GET"],
    [path |-> <<"/","s","l","a","c","k","/","a","t","l","a","n","-","s","e","t","u","p">>, method |-> "OPTIONS"],
    [path |-> <<"/","n","o","p","e">>, method |-> "POST"] }

\* the lengths of the lines of a report
LineLengths ==
  {0, max_length \div 2 - 1, max_length \div 2, max_length - 1, max_length, max_length + 1}

\* reports: '\n'.split() of a str has at least one line
Reports == SeqsUpTo(LineLengths, MaxLines) \ {<<>>}

\* what the functions of the health_checker module do for a command: one of
\* them raises, the parser returns nothing, or a report is generated
NoEnv ==
  [raises |-> FALSE, message |-> <<>>, parsed_none |-> FALSE, company_name |-> <<>>,
   canvas_lines |-> <<0>>, overall_score |-> 0]

Envs ==
  { [NoEnv EXCEPT !.raises = TRUE, !.message = m] : m \in {<<>>, <<"'","t","o","t","a","l","_","a","s","s","e","t","s","'">>} }
  \cup { [NoEnv EXCEPT !.parsed_none = TRUE] }
  \cup { [NoEnv EXCEPT !.company_name = c, !.canvas_lines = l, !.overall_score = n] :
           c \in BareNames, l \in Reports, n \in {7, 100} }

\* the events of the slack-command function
CommandEvents ==
  { [method |-> "OPTIONS", body |-> <<>>] }
  \cup [method : {"POST"}, body : {<<"t","e","x","t","=","+">>, <<"t","e","x","t","=","D","e","m","o","+","C","o","r","p">>, <<"u","s","e","r","_","i","d","=","U","1">>}]

\* the atlan_url a caller passes: None or a tenant URL
FetchUrls == {NoneStr} \cup {SomeStr(u) : u \in TenantUrls}

\* filter mappings of the fetch functions: the parser's (a string, or a list
\* of two or more strings) and a caller's own (an empty list)
FetchFilters ==
  { <<>>,
    <<[k |-> <<"i","n","d","u","s","t","r","y">>, v |-> StrVal(<<"f","i","n","a","n","c","e">>)]>>,
    <<[k |-> <<"i","n","d","u","s","t","r","y">>, v |-> StrVal(<<"H","e","a","l","t","h","c","a","r","e">>)]>>,
    <<[k |-> <<"i","n","d","u","s","t","r","y">>, v |-> StrVal(<<"c","o","n","s","t","r","u","c","t","i","o","n">>)]>>,
    <<[k |-> <<"c","e","r","t","i","f","i","c","a","t","e">>, v |-> StrVal(<<"V","E","R","I","F","I","E","D">>)]>>,
    <<[k |-> <<"c","e","r","t","i","f","i","c","a","t","e">>, v |-> StrVal(<<"v","e","r","i","f","i","e","d">>)],
      [k |-> <<"t","a","g","s">>, v |-> ListVal(<<<<"P","I","I">>, <<"S","O","X">>>>)]>>,
    <<[k |-> <<"c","e","r","t","i","f","i","c","a","t","e">>, v |-> ListVal(<<<<"V","E","R","I","F","I","E","D">>, <<"D","R","A","F","T">>>>)]>>,
    <<[k |-> <<"t","a","g","s">>, v |-> StrVal(<<"P","I","I">>)],
      [k |-> <<"c","o","n","n","e","c","t","i","o","n","s">>, v |-> ListVal(<<<<"S","n","o","w","f","l","a","k","e">>, <<"T","a","b","l","e","a","u">>>>)]>>,
    <<[k |-> <<"c","o","n","n","e","c","t","i","o","n","s">>, v |-> StrVal(<<"S","n","o","w","f","l","a","k","e">>)]>>,
    <<[k |-> <<"c","o","n","n","e","c","t","i","o","n","s">>, v |-> ListVal(<<>>)]>>,
    <<[k |-> <<"c","e","r","t","i","f","i","c","a","t","e">>, v |-> ListVal(<<>>)]>> }

\* the assets a real MCP search returns
AssetLists ==
  SeqsUpTo([certificate_status : {<<"V","E","R","I","F","I","E","D">>, <<"D","R","A","F","T">>}, asset_tags : {<<>>, <<<<"P","I","I">>>>}],
           MaxAssets)

\* what call_atlan_mcp_tool returns for atlan:search_assets_tool
SearchResults ==
  {[data_source |-> <<"R","E","A","L","_","M","C","P","_","D","I","R","E","C","T","_","C","A","L","L">>, assets |-> a] : a \in AssetLists}
  \cup {[data_source |-> d, assets |-> <<>>] :
          d \in {<<"M","C","P","_","N","O","T","_","A","V","A","I","L","A","B","L","E">>, <<"M","C","P","_","F","A","I","L","E","D">>, <<"M","C","P","_","C","O","M","P","L","E","T","E","_","F","A","I","L","U","R","E">>}}

\* outcomes of the random calls of fetch_atlan_data, the ends of each range:
\* randint(500, 5000), uniform(0.3, 0.8), uniform(0.4, 0.9) and
\* randint(100, 1000), randint(50, 500), randint(80, 800)
Draws ==
  [total_assets : {500, 5000}, verified_rate : {30, 80}, tagged_rate : {40, 90},
   fallback_total : {100, 1000}, fallback_verified : {50, 500},
   fallback_tagged : {80, 800}]

----------------------------------------------------------------------------
(* Operations                                                              *)

\* no call is in progress
Idle == op = "idle"

\* one call: its name, its inputs and its outcome
Call(o, a, r) ==
  /\ op' = o
  /\ arg' = a
  /\ res' = r
  /\ UNCHANGED <<health_checker, requests, log>>

ParseCommand ==
  /\ Idle
  /\ \E c \in Commands :
    Call("parse_professional_command",
         [command |-> c, command_text |-> CommandText(c)],
         parse_professional_command(CommandText(c)))

DetectIndustry ==
  /\ Idle
  /\ \E company_name \in ClassifierNames, filters \in ClassifierFilters :
    Call("detect_industry_professional",
         [company_name |-> company_name, filters |-> filters],
         detect_industry_professional(company_name, filters))

CalculateScore ==
  /\ Idle
  /\ \E industry \in ScorerIndustries, atlan_data \in Snapshots,
     filters \in ScorerFilters, r \in Jitters, below \in BOOLEAN :
    LET rnd == [r EXCEPT !.below = below]
    IN /\ below => product_is_integer(industry, atlan_data, filters, rnd)
       /\ Call("calculate_professional_health_score",
               [industry |-> industry, atlan_data |-> atlan_data,
                filters |-> filters, rnd |-> rnd],
               calculate_professional_health_score(industry, atlan_data, filters, rnd))

\* the conditional expression of the 'grade' entry, for a final score
GradeScore ==
  /\ Idle
  /\ \E final_score \in FinalScores :
       Call("grade", [final_score |-> final_score], grade_of(final_score))

VerifySlackSignature ==
  /\ Idle
  /\ \E file \in {"app.py", ".netlify/functions/app.py"}, secret \in SigningSecrets,
        r \in Requests, now2 \in Clock :
       Call("verify_slack_signature",
            [file |-> file, secret |-> secret, request |-> r, now2 |-> now2],
            IF file = "app.py"
            THEN verify_outcome(
                   flask_verify_raises(secret, [headers |-> Headers(secret, r), body |-> r.body]),
                   flask_verify_slack_signature(
                     secret, [headers |-> Headers(secret, r), body |-> r.body], now2))
            ELSE verify_outcome(
                   netlify_verify_raises(secret, Headers(secret, r)),
                   netlify_verify_slack_signature(secret, Headers(secret, r), r.body, now2)))

\* a request to the Flask app of src/app.py
FlaskRequest ==
  /\ Idle
  /\ \E route \in app_routes, secret \in SigningSecrets, r \in Requests, now2 \in Clock :
     \E fault \in FaultsOf(r) :
       Call(route.view,
            [file |-> "app.py", path |-> route.path, method |-> route.method,
             secret |-> secret, request |-> r, now2 |-> now2, fault |-> fault],
            view_function(route.view, secret,
                          [headers |-> Headers(secret, r), body |-> r.body], now2, fault))

\* an event for the handler of src/.netlify/functions/app.py
NetlifyRequest ==
  /\ Idle
  /\ \E route \in NetlifyRoutes, secret \in SigningSecrets, r \in Requests, now2 \in Clock :
     \E fault \in FaultsOf(r) :
       Call("handler",
            [file |-> ".netlify/functions/app.py", path |-> route.path,
             method |-> route.method, secret |-> secret, request |-> r, now2 |-> now2,
             fault |-> fault],
            netlify_app_handler(secret,
              [method |-> route.method, path |-> route.path,
               headers |-> Headers(secret, r), body |-> r.body], now2, fault))

\* a request to /slack/atlan-setup of src/api/index.py
SlackCommand ==
  /\ Idle
  /\ \E c \in Commands, user_name \in UserNames, current_time \in Times :
     \E fault \in (IF c.tokens = <<>> THEN Faults ELSE {NoFault}) :
       Call("slack_command",
            [command |-> c, text |-> CommandText(c), user_name |-> user_name,
             current_time |-> current_time, fault |-> fault],
            slack_command(CommandText(c), user_name, current_time, fault))

\* a request to /slack/atlan-setup of src/index.py
IndexRequest ==
  /\ Idle
  /\ \E text_field \in TextFields, fault \in Faults :
       Call("index_handle_atlan_setup",
            [text |-> text_field, fault |-> fault],
            index_handle_atlan_setup(text_field, fault))

\* a request to the handler of src/api/slack.py
SlackHandlerRequest ==
  /\ Idle
  /\ \E method \in {"POST", "GET"}, text_field \in TextFields, fault \in Faults :
       Call("slack_handler",
            [method |-> method, text |-> text_field, fault |-> fault],
            slack_handler(method, text_field, fault))

\* an event for the handler of src/netlify/functions/slack-command.py
SlackCommandHandler ==
  /\ Idle
  /\ \E event \in CommandEvents, env \in Envs :
       Call("slack_command_handler",
            [event |-> event, env |-> env],
            slack_command_handler(event, env))

FetchRealAtlanData ==
  /\ Idle
  /\ \E atlan_url \in FetchUrls, filters \in FetchFilters, search_results \in SearchResults :
       Call("fetch_real_atlan_data",
            [atlan_url |-> atlan_url, filters |-> filters, search_results |-> search_results],
            Return(fetch_real_atlan_data(atlan_url, filters, search_results)))

FetchAtlanData ==
  /\ Idle
  /\ \E atlan_url \in FetchUrls, filters \in FetchFilters, draw \in Draws :
       Call("fetch_atlan_data",
            [atlan_url |-> atlan_url, filters |-> filters, draw |-> draw],
            Return(fetch_atlan_data(atlan_url, filters, draw)))

FetchTenantOverview ==
  /\ Idle
  /\ \E filters \in FetchFilters :
       Call("fetch_tenant_overview", [filters |-> filters], fetch_tenant_overview(filters))

\* the call is over: nothing of it is kept
Finish ==
  /\ op # "idle"
  /\ op' = "idle"
  /\ arg' = <<>>
  /\ res' = <<>>
  /\ UNCHANGED <<health_checker, requests, log>>

\* slack_command from its first line to Thread(...).start(), or to its return
\* when no thread is started
StartRequest ==
  \E i \in RequestIds :
    /\ requests[i].handler = "none"
    /\ \A j \in 1..(i - 1) : requests[j].handler # "none"
    /\ \E text_field \in ConcurrentTexts :
       \E out \in {slack_command(text_field, UserNameOf(i), <<>>, NoFault)} :
            requests' =
              [requests EXCEPT ![i] =
                 [NoRequest EXCEPT
                    !.handler = IF out.thread.started THEN "running" ELSE "returned",
                    !.text = text_field,
                    !.user_name = UserNameOf(i),
                    !.response = IF out.thread.started THEN NoRequest.response ELSE out.response,
                    !.thread = out.thread,
                    !.pc = IF out.thread.started THEN "fetch" ELSE "none"]]
    /\ UNCHANGED <<health_checker, op, arg, res, log>>

\* slack_command from Thread(...).start() to its return
ReturnResponse ==
  \E i \in RequestIds :
    /\ requests[i].handler = "running"
    /\ \E current_time \in {TimeOf(i)} :
       \E r \in {[requests[i] EXCEPT !.current_time = current_time]} :
            requests' =
              [requests EXCEPT ![i] =
                 [r EXCEPT !.handler = "returned", !.response = immediate_response(r)]]
    /\ UNCHANGED <<health_checker, op, arg, res, log>>

\* run_professional_health_check: loop.run_until_complete(fetch_real_atlan_data(...))
ThreadFetch ==
  \E i \in RequestIds :
    /\ requests[i].pc = "fetch"
    /\ \E outcome \in FetchOutcomes :
         IF outcome = "raises"
         THEN /\ requests' = [requests EXCEPT ![i].pc = "assess", ![i].branch = "except",
                                               ![i].atlan_data = except_data,
                                               ![i].loop = "open"]
              /\ log' = [log EXCEPT ![i] = Append(log[i], error_line(i))]
         ELSE /\ requests' = [requests EXCEPT ![i].pc = "assess",
                                 ![i].loop = "open",
                                 ![i].atlan_data = IF outcome = "empty" THEN empty_data
                                                   ELSE fallback_data]
              /\ UNCHANGED log
    /\ UNCHANGED <<health_checker, op, arg, res>>

\* run_professional_health_check: the score, the recommendations, the canvas
\* and its print, in the try block or in its except branch
ThreadAssess ==
  \E i \in RequestIds :
    /\ requests[i].pc = "assess"
    /\ \E rnd \in {JitterLow, JitterHigh}, closure \in {closure_variables(requests, i)} :
       \E health_scores \in {calculate_professional_health_score(
                               closure.industry, requests[i].atlan_data, closure.filters, rnd)} :
            IF health_scores.exc = "none"
            THEN /\ requests' = [requests EXCEPT ![i].pc = "done", ![i].loop = "closed"]
                 /\ log' = [log EXCEPT ![i] = Append(log[i],
                          canvas_line(i, closure, requests[i].atlan_data, health_scores.val))]
            ELSE /\ log' = [log EXCEPT ![i] = Append(log[i], error_line(i))]
                 /\ requests' =
                      IF requests[i].branch = "try"
                      THEN [requests EXCEPT ![i].branch = "except",
                                            ![i].atlan_data = except_data]
                      ELSE [requests EXCEPT ![i].pc = "done", ![i].loop = "closed"]
    /\ UNCHANGED <<health_checker, op, arg, res>>

----------------------------------------------------------------------------

Init ==
  /\ health_checker = [industry_regulations |-> industry_regulations,
                       assessment_criteria |-> assessment_criteria]
  /\ op = "idle"
  /\ arg = <<>>
  /\ res = <<>>
  /\ requests = [i \in RequestIds |-> NoRequest]
  /\ log = [i \in RequestIds |-> <<>>]

Next ==
  \/ ParseCommand
  \/ DetectIndustry
  \/ CalculateScore
  \/ GradeScore
  \/ VerifySlackSignature
  \/ FlaskRequest
  \/ NetlifyRequest
  \/ SlackCommand
  \/ IndexRequest
  \/ SlackHandlerRequest
  \/ SlackCommandHandler
  \/ FetchRealAtlanData
  \/ FetchAtlanData
  \/ FetchTenantOverview
  \/ Finish

Spec == Init /\ [][Next]_vars

\* concurrent requests to slack_command and their threads
ConcurrentNext ==
  \/ StartRequest
  \/ ReturnResponse
  \/ ThreadFetch
  \/ ThreadAssess

ConcurrentSpec == Init /\ [][ConcurrentNext]_vars

\* what a step of ThreadAssess does to requests: the thread of request i
\* finishes and closes its loop, or enters the except branch
ThreadAssessOnRequests ==
  \E i \in RequestIds :
    /\ requests[i].pc = "assess"
    /\ requests' \in
         {[requests EXCEPT ![i].pc = "done", ![i].loop = "closed"],
          [requests EXCEPT ![i].branch = "except", ![i].atlan_data = except_data]}

\* a started thread is scheduled (threading.Thread(...).start()): its fetch
\* and its assess step are taken when they stay enabled
FairConcurrentSpec ==
  /\ ConcurrentSpec
  /\ WF_vars(ThreadFetch)
  /\ WF_requests(ThreadAssessOnRequests)

----------------------------------------------------------------------------
(* Properties                                                              *)

\* the six industries of the classifier's contract
KnownIndustries == {finance, healthcare, construction, retail, technology, manufacturing}

\* C1: the scorer returns an overall_score that is an integer in 0..100 for
\* every industry, every asset snapshot and every outcome of the jitter, a
\* snapshot with total_assets = 0 included, and it does not raise.
C1_ScoreInRange ==
  op = "calculate_professional_health_score" =>
    /\ res.exc = "none"
    /\ res.val.overall_score \in 0..100

\* the scorer on a snapshot with total_assets = 0
C1_ZeroAssets ==
  /\ op = "calculate_professional_health_score"
  /\ arg.atlan_data.total_assets = 0
  /\ res = Raise("ZeroDivisionError")

\* the score is in 0..100 whenever total_assets is positive
C1_ScoreInRangeWithAssets ==
  (op = "calculate_professional_health_score" /\ arg.atlan_data.total_assets > 0) =>
    /\ res.exc = "none"
    /\ res.val.overall_score \in 0..100

\* C2: verify_slack_signature rejects every request whose timestamp is more
\* than 300 seconds older than the current time, also when the signature is
\* the correct HMAC of 'v0:<timestamp>:<body>' under the configured secret.
C2_StaleTimestampRejected ==
  (/\ op = "verify_slack_signature"
   /\ arg.request.timestamp.kind = "seconds"
   /\ arg.now2 - 2 * arg.request.timestamp.seconds > 2 * 300)
  => res = Return(FALSE)

\* a request that is 301 seconds old and correctly signed under a configured
\* secret is rejected
C2_Witness ==
  /\ op = "verify_slack_signature"
  /\ arg.secret # <<>>
  /\ arg.request.signature = "correct"
  /\ arg.request.names = "lower"
  /\ arg.request.timestamp.kind = "seconds"
  /\ arg.now2 - 2 * arg.request.timestamp.seconds = 2 * 301
  /\ res = Return(FALSE)

\* C3: in src/app.py and src/.netlify/functions/app.py a POST to
\* /slack/atlan-setup or /slack/interactive whose signature headers are missing
\* or do not verify gets 401 with a JSON error body and nothing else: no usage
\* text, no 'health check started' text, no {status: ok}.
C3_UnverifiedGets401 ==
  (/\ op \in {"handle_atlan_setup", "handle_interactive", "handler"}
   /\ arg.method = "POST"
   /\ arg.path \in {<<"/","s","l","a","c","k","/","a","t","l","a","n","-","s","e","t","u","p">>, <<"/","s","l","a","c","k","/","i","n","t","e","r","a","c","t","i","v","e">>}
   /\ \/ arg.request.timestamp.kind # "seconds"
      \/ arg.request.signature # "correct"
      \/ arg.now2 - 2 * arg.request.timestamp.seconds > 2 * 300
      \/ 2 * arg.request.timestamp.seconds - arg.now2 > 2 * 300)
  => /\ res.statusCode = 401
     /\ res.body.json = "error"
     /\ res.body.text = NoText
     /\ res.body.status = ""

\* a fresh request to /slack/atlan-setup signed under another key gets 401
C3_Witness ==
  /\ op \in {"handle_atlan_setup", "handler"}
  /\ arg.method = "POST"
  /\ arg.path = <<"/","s","l","a","c","k","/","a","t","l","a","n","-","s","e","t","u","p">>
  /\ arg.secret # <<>>
  /\ arg.request.signature = "other_key"
  /\ arg.request.timestamp.kind = "seconds"
  /\ arg.request.timestamp.seconds = Now
  /\ res = Response(401, ErrorBody("Unauthorized"))

\* C4: the text of every response of the slack-command handler is no longer
\* than max_length, for every report and every company name, the header and
\* the code fence the handler puts around the report counted.
C4_ReplyWithinLimit ==
  (op = "slack_command_handler" /\ res.body.json = "message") =>
    res.body.text.length <= max_length

\* a report of exactly max_length characters is sent in one text with the
\* header and the code fence around it
C4_ReportAtLimit ==
  /\ op = "slack_command_handler"
  /\ res.body.json = "message"
  /\ res.body.text.msg = "complete"
  /\ joined_length(arg.env.canvas_lines) = max_length
  /\ res.body.text.length > max_length

\* C5: a report longer than max_length is delivered as chunks, each within the
\* limit, whose concatenation is the whole report: no line is dropped.  The
\* handler sends one response, so the chunks are the lines of its one text.
C5_WholeReportDelivered ==
  (/\ op = "slack_command_handler"
   /\ res.body.json = "message"
   /\ res.body.text.msg \in {"complete", "first_chunk"}
   /\ joined_length(arg.env.canvas_lines) > max_length)
  => /\ joined_length(res.body.text.lines) <= max_length
     /\ res.body.text.lines = arg.env.canvas_lines

\* a report of two lines, too long together, of which only the first is sent
C5_LineDropped ==
  /\ op = "slack_command_handler"
  /\ res.body.json = "message"
  /\ res.body.text.msg = "first_chunk"
  /\ Len(arg.env.canvas_lines) = 2
  /\ Len(res.body.text.lines) = 1

\* C6: for a command text made of a double-quoted company name, a tenant URL
\* and key:value tokens, the parser returns the text between the quotes as
\* company_name, the URL as atlan_url, and filters whose keys are the keys of
\* the tokens, each mapped to its (last) value: the list of the comma-separated
\* parts when the value holds a comma, the scalar string otherwise.
C6_QuotedCommandParsed ==
  (/\ op = "parse_professional_command"
   /\ arg.command.form = "quoted"
   /\ arg.command.url.some)
  => /\ res.exc = "none"
     /\ ~res.val.none
     /\ res.val.company_name = arg.command.name
     /\ res.val.atlan_url = arg.command.url
     /\ LET tokens == arg.command.tokens
            filters == res.val.filters
        IN /\ {filters[i].k : i \in 1..Len(filters)} = {tokens[i].key : i \in 1..Len(tokens)}
           /\ \A i, j \in 1..Len(filters) : filters[i].k = filters[j].k => i = j
           /\ \A i \in 1..Len(tokens) :
                (\A j \in (i + 1)..Len(tokens) : tokens[j].key # tokens[i].key) =>
                  LET v == DictGet(filters, tokens[i].key)
                  IN IF Contains(tokens[i].value, <<",">>)
                     THEN /\ v.list
                          /\ join(<<",">>, v.items) = tokens[i].value
                          /\ \A k \in 1..Len(v.items) : ~Contains(v.items[k], <<",">>)
                     ELSE v = StrVal(tokens[i].value)

\* "Acme Co" https://acme.atlan.com industry:retail tags:PII,SOX
C6_Witness ==
  /\ op = "parse_professional_command"
  /\ arg.command_text = <<"\"","A","c","m","e"," ","C","o","\""," ","h","t","t","p","s",":","/","/","a","c","m","e",".","a","t","l","a","n",".","c","o","m"," ","i","n","d","u","s","t","r","y",":","r","e","t","a","i","l"," ","t","a","g","s",":","P","I","I",",","S","O","X">>
  /\ res = Return(Parsed(<<"A","c","m","e"," ","C","o">>, SomeStr(<<"h","t","t","p","s",":","/","/","a","c","m","e",".","a","t","l","a","n",".","c","o","m">>),
                         << [k |-> <<"i","n","d","u","s","t","r","y">>, v |-> StrVal(<<"r","e","t","a","i","l">>)],
                            [k |-> <<"t","a","g","s">>, v |-> ListVal(<<<<"P","I","I">>, <<"S","O","X">>>>)] >>))

\* C7: blank command text (empty, or whitespace only) leads to the 'no
\* command' outcome and never to a crash: the parser returns None without
\* raising, and the /slack/atlan-setup handler answers with the ephemeral
\* usage text.
C7_BlankIsNoCommand ==
  /\ (op = "parse_professional_command" /\ arg.command.form = "blank")
       => res = Return(ParsedNone)
  /\ (op = "slack_command" /\ arg.command.form = "blank")
       => /\ res.response = Response(200, MessageBody("ephemeral", Text("usage", <<>>)))
          /\ ~res.thread.started

\* the parser raises on a text of whitespace
C7_ParserRaises ==
  /\ op = "parse_professional_command"
  /\ arg.command.form = "blank"
  /\ res = Raise("IndexError")

\* the handler answers every blank text with the usage text
C7_HandlerAnswersUsage ==
  (op = "slack_command" /\ arg.command.form = "blank")
    => /\ res.response = Response(200, MessageBody("ephemeral", Text("usage", <<>>)))
       /\ ~res.thread.started

\* C8: when the filters hold an industry key whose value (its first element if
\* it is a list) is, ignoring case, one of the six known industries, the
\* classifier returns that industry, whatever the company name contains.
C8_IndustryFilterOverrides ==
  (op = "detect_industry_professional" /\ DictHas(arg.filters, <<"i","n","d","u","s","t","r","y">>)) =>
    LET v == DictGet(arg.filters, <<"i","n","d","u","s","t","r","y">>)
        specified == IF v.list THEN v.items[1] ELSE v.s
    IN \A industry \in KnownIndustries :
         lower(specified) = industry => res = Return(industry)

\* industry:retail with a company name that contains 'Hospital' is retail
C8_Witness ==
  /\ op = "detect_industry_professional"
  /\ arg.company_name = <<"C","i","t","y"," ","H","o","s","p","i","t","a","l">>
  /\ arg.filters = <<[k |-> <<"i","n","d","u","s","t","r","y">>, v |-> StrVal(<<"r","e","t","a","i","l">>)]>>
  /\ res = Return(retail)

\* the filters name none of the six industries under the key industry
NoUsableIndustryFilter ==
  \/ ~DictHas(arg.filters, <<"i","n","d","u","s","t","r","y">>)
  \/ LET v == DictGet(arg.filters, <<"i","n","d","u","s","t","r","y">>)
     IN lower(IF v.list THEN v.items[1] ELSE v.s) \notin KnownIndustries

\* C9: with no usable industry filter the classifier matches keywords against
\* the company name, ignoring case, healthcare terms first, then finance terms,
\* then construction terms.
C9_KeywordPriority ==
  (op = "detect_industry_professional" /\ NoUsableIndustryFilter) =>
    LET name == lower(arg.company_name)
        health == \E i \in 1..Len(healthcare_terms) : Contains(name, healthcare_terms[i])
        money == \E i \in 1..Len(finance_terms) : Contains(name, finance_terms[i])
        build == \E i \in 1..Len(construction_terms) : Contains(name, construction_terms[i])
    IN /\ health => res = Return(healthcare)
       /\ (~health /\ money) => res = Return(finance)
       /\ (~health /\ ~money /\ build) => res = Return(construction)

\* a name with a healthcare term and a finance term is healthcare
C9_Witness ==
  /\ op = "detect_industry_professional"
  /\ arg.company_name = <<"H","e","a","l","t","h"," ","B","a","n","k">>
  /\ arg.filters = <<>>
  /\ res = Return(healthcare)

C11_ResponseHoldsAssessment ==
  (/\ op = "slack_command"
   /\ arg.command.form \in {"quoted", "bare"}
   /\ arg.command.name # <<>>
   /\ arg.command.url.some)
  => /\ res.response.statusCode = 200
     /\ Contains(res.response.body.text.content, <<"G","o","v","e","r","n","a","n","c","e"," ","H","e","a","l","t","h"," ","S","c","o","r","e">>)
     /\ Contains(res.response.body.text.content, <<"S","t","r","a","t","e","g","i","c"," ","R","e","c","o","m","m","e","n","d","a","t","i","o","n","s">>)

\* a well-formed command is answered with the 'started' text, which holds
\* neither phrase
C11_StartedTextOnly ==
  /\ op = "slack_command"
  /\ arg.text = <<"\"","A","c","m","e"," ","C","o","\""," ","h","t","t","p","s",":","/","/","a","c","m","e",".","a","t","l","a","n",".","c","o","m"," ","i","n","d","u","s","t","r","y",":","r","e","t","a","i","l"," ","t","a","g","s",":","P","I","I",",","S","O","X">>
  /\ res.response.statusCode = 200
  /\ res.response.body.text.msg = "professional_started"
  /\ ~Contains(res.response.body.text.content, <<"G","o","v","e","r","n","a","n","c","e"," ","H","e","a","l","t","h"," ","S","c","o","r","e">>)
  /\ ~Contains(res.response.body.text.content, <<"S","t","r","a","t","e","g","i","c"," ","R","e","c","o","m","m","e","n","d","a","t","i","o","n","s">>)

\* C12: when the command text cannot be parsed into a company name and a
\* tenant URL (for example a text with no .atlan.com URL), /slack/atlan-setup
\* answers 200 with an ephemeral text asking for correct usage and starts no
\* health check, in src/api/index.py and in the slack-command function.
C12_UnparsableAsksForUsage ==
  /\ (/\ op = "slack_command"
      /\ arg.command.form # "blank"
      /\ ~arg.command.url.some)
     => /\ res.response.statusCode = 200
        /\ res.response.body.response_type = "ephemeral"
        /\ res.response.body.text.msg = "could_not_parse"
        /\ ~res.thread.started
  /\ (/\ op = "slack_command_handler"
      /\ arg.event.method = "POST"
      /\ strip(parse_qs_get(arg.event.body, <<"t","e","x","t">>)) # <<>>
      /\ ~arg.env.raises
      /\ arg.env.parsed_none)
     => /\ res.statusCode = 200
        /\ res.body.response_type = "ephemeral"
        /\ res.body.text.msg = "could_not_parse"

\* a text without a URL starts a health check and is answered in_channel
C12_StartedWithoutUrl ==
  /\ op = "slack_command"
  /\ arg.text = <<"T","e","c","h","C","o","r","p">>
  /\ res.response.body.response_type = "in_channel"
  /\ res.response.body.text.msg = "professional_started"
  /\ res.thread.started
  /\ ~res.thread.atlan_url.some

\* slack_command never answers 'Could not parse command'
C12_ParseErrorUnreachable ==
  op = "slack_command" => res.response.body.text.msg # "could_not_parse"

\* C13: an exception raised while an accepted /slack/atlan-setup request is
\* processed becomes a response whose body has response_type 'ephemeral' and a
\* text that holds str(e), in src/api/index.py, src/app.py, src/index.py and
\* both Netlify handlers.
C13_ExceptionBecomesEphemeralText ==
  /\ (op = "slack_command" /\ arg.fault.raised)
     => /\ res.response.body.response_type = "ephemeral"
        /\ Contains(res.response.body.text.content, arg.fault.message)
  /\ (/\ op = "handle_atlan_setup"
      /\ arg.fault.raised
      /\ res.statusCode # 401)
     => /\ res.body.response_type = "ephemeral"
        /\ Contains(res.body.text.content, arg.fault.message)
  /\ (op = "index_handle_atlan_setup" /\ arg.fault.raised)
     => /\ res.body.response_type = "ephemeral"
        /\ Contains(res.body.text.content, arg.fault.message)
  /\ (/\ op = "handler"
      /\ arg.path = <<"/","s","l","a","c","k","/","a","t","l","a","n","-","s","e","t","u","p">>
      /\ arg.method = "POST"
      /\ arg.fault.raised
      /\ res.statusCode # 401)
     => /\ res.body.response_type = "ephemeral"
        /\ Contains(res.body.text.content, arg.fault.message)
  /\ (/\ op = "slack_command_handler"
      /\ arg.event.method = "POST"
      /\ strip(parse_qs_get(arg.event.body, <<"t","e","x","t">>)) # <<>>
      /\ arg.env.raises)
     => /\ res.body.response_type = "ephemeral"
        /\ Contains(res.body.text.content, arg.env.message)

\* src/app.py answers an exception with a fixed text that does not hold str(e)
C13_FixedErrorText ==
  /\ op = "handle_atlan_setup"
  /\ arg.file = "app.py"
  /\ arg.fault = Fault(<<"b","o","o","m">>)
  /\ res.statusCode = 500
  /\ res.body.response_type = "ephemeral"
  /\ res.body.text.content = <<"@"," ","A","n"," ","e","r","r","o","r"," ","o","c","c","u","r","r","e","d"," ","p","r","o","c","e","s","s","i","n","g"," ","y","o","u","r"," ","r","e","q","u","e","s","t">>
  /\ ~Contains(res.body.text.content, <<"b","o","o","m">>)

\* src/index.py answers an exception with {"error": str(e)}, without a
\* response_type
C13_IndexErrorBody ==
  /\ op = "index_handle_atlan_setup"
  /\ arg.fault = Fault(<<"b","o","o","m">>)
  /\ res = Response(500, ErrorBody(<<"b","o","o","m">>))

\* src/api/index.py and the slack-command function answer an exception with
\* an ephemeral text that holds str(e)
C13_TextHoldsException ==
  /\ (op = "slack_command" /\ arg.fault.raised)
     => /\ res.response.statusCode = 500
        /\ res.response.body.response_type = "ephemeral"
        /\ Contains(res.response.body.text.content, arg.fault.message)
  /\ (/\ op = "slack_command_handler"
      /\ arg.event.method = "POST"
      /\ strip(parse_qs_get(arg.event.body, <<"t","e","x","t">>)) # <<>>
      /\ arg.env.raises)
     => /\ res.body.response_type = "ephemeral"
        /\ Contains(res.body.text.content, arg.env.message)

\* the body is {response_type, text}: 'ephemeral' for a blank or failed
\* command, 'in_channel' for the others
SlackMessage(body, blank, failed) ==
  /\ body.json = "message"
  /\ body.response_type = (IF blank \/ failed THEN "ephemeral" ELSE "in_channel")

\* src/api/index.py, src/app.py, src/api/slack.py and the Netlify functions
\* answer an accepted POST to /slack/atlan-setup with {response_type, text}
C14_OtherRevisionsShape ==
  /\ op = "slack_command"
     => SlackMessage(res.response.body, strip(arg.text) = <<>>,
                     res.response.statusCode = 500)
  /\ (op = "handle_atlan_setup" /\ res.statusCode # 401)
     => SlackMessage(res.body, strip(form_get(arg.request.body, <<"t","e","x","t">>)) = <<>>,
                     arg.fault.raised)
  /\ (/\ op = "handler"
      /\ arg.path = <<"/","s","l","a","c","k","/","a","t","l","a","n","-","s","e","t","u","p">>
      /\ arg.method = "POST"
      /\ res.statusCode # 401)
     => SlackMessage(res.body, strip(parse_qs_get(arg.request.body, <<"t","e","x","t">>)) = <<>>,
                     arg.fault.raised)
  /\ (op = "slack_handler" /\ arg.method = "POST" /\ res.exc = "none")
     => SlackMessage(res.val.body, strip(arg.text) = <<>>, FALSE)
  /\ (op = "slack_command_handler" /\ arg.event.method = "POST")
     => SlackMessage(res.body, strip(parse_qs_get(arg.event.body, <<"t","e","x","t">>)) = <<>>,
                     arg.env.raises \/ arg.env.parsed_none)

\* C14: every response body returned for an accepted POST to
\* /slack/atlan-setup is {response_type, text} with response_type 'ephemeral'
\* for a blank or failed command and 'in_channel' for a processed one.
C14_ResponseShape ==
  /\ C14_OtherRevisionsShape
  /\ op = "index_handle_atlan_setup"
     => SlackMessage(res.body, strip(arg.text) = <<>>, arg.fault.raised)

\* a failed command gets the body {"error": str(e)} from src/index.py
C14_ErrorShape ==
  /\ op = "index_handle_atlan_setup"
  /\ arg.text = <<"D","e","m","o"," ","C","o","r","p"," ","h","t","t","p","s",":","/","/","d","e","m","o",".","a","t","l","a","n",".","c","o","m">>
  /\ arg.fault.raised
  /\ res.statusCode = 500
  /\ res.body.json = "error"
  /\ res.body.response_type = ""

\* C15: under every interleaving of concurrent requests and their threads,
\* the tables of health_checker are the ones of its construction, the
\* variables of a thread are the ones its own request parsed, and every canvas
\* a thread prints is made of the company name, industry, URL, filters, user
\* and data snapshot of its own request.
C15_RequestsIsolated ==
  /\ health_checker = [industry_regulations |-> industry_regulations,
                       assessment_criteria |-> assessment_criteria]
  /\ \A i \in RequestIds :
       /\ requests[i].thread.started
          => \E parsed \in {parse_professional_command(strip(requests[i].text)).val} :
               requests[i].thread
                 = Thread(parsed.company_name,
                          detect_industry_professional(parsed.company_name, parsed.filters).val,
                          parsed.atlan_url, parsed.filters)
       /\ \A k \in 1..Len(log[i]) :
            /\ log[i][k].request = i
            /\ log[i][k].kind = "canvas"
               => /\ log[i][k].company_name = requests[i].thread.company_name
                  /\ log[i][k].industry = requests[i].thread.industry
                  /\ log[i][k].atlan_url = requests[i].thread.atlan_url
                  /\ log[i][k].filters = requests[i].thread.filters
                  /\ log[i][k].user_name = requests[i].user_name
                  /\ log[i][k].atlan_data = requests[i].atlan_data

\* two requests for different companies run at once, and the thread of the
\* second prints its canvas while the thread of the first has not yet scored
C15_ThreadsInterleave ==
  /\ requests[1].text = <<"M","e","g","a","B","a","n","k"," ","t","a","g","s",":","P","I","I">>
  /\ requests[2].text = <<"T","e","c","h","C","o","r","p">>
  /\ requests[1].pc = "assess"
  /\ requests[1].handler = "running"
  /\ requests[2].pc = "done"
  /\ Len(log[2]) = 1
  /\ log[2][1].kind = "canvas"
  /\ log[2][1].company_name = <<"T","e","c","h","C","o","r","p">>
  /\ log[2][1].industry = technology

C16_ThreadLeavesResponse ==
  [][\A i \in RequestIds :
       requests[i].handler = "returned" => requests'[i].response = requests[i].response]_vars

\* the grades, from the lowest to the highest
GradeRank == [C |-> 1, Cplus |-> 2, B |-> 3, Bplus |-> 4, A |-> 5]

RankOf(grade) ==
  CASE grade = "C" -> GradeRank.C
    [] grade = "C+" -> GradeRank.Cplus
    [] grade = "B" -> GradeRank.B
    [] grade = "B+" -> GradeRank.Bplus
    [] grade = "A" -> GradeRank.A

\* the grade the fixed thresholds give to a score
GradeByThreshold(score, grade) ==
  /\ grade \in {"A", "B+", "B", "C+", "C"}
  /\ grade = "A" <=> score >= 90
  /\ grade = "B+" <=> (score >= 80 /\ score < 90)
  /\ grade = "B" <=> (score >= 70 /\ score < 80)
  /\ grade = "C+" <=> (score >= 60 /\ score < 70)
  /\ grade = "C" <=> score < 60

\* C17: the grade is fixed by the overall score alone: 'A' from 90, 'B+' from
\* 80, 'B' from 70, 'C+' from 60 and 'C' below; every integer score has one
\* grade, and no lower score has a higher grade.
C17_GradeByThresholds ==
  /\ (op = "calculate_professional_health_score" /\ res.exc = "none")
     => GradeByThreshold(res.val.overall_score, res.val.grade)
  /\ op = "grade"
     => /\ GradeByThreshold(arg.final_score, res)
        /\ \A smaller \in FinalScores :
             smaller <= arg.final_score => RankOf(grade_of(smaller)) <= RankOf(res)

\* the scorer returns a score that lies on a threshold, with the grade of
\* that threshold
C17_ThresholdScore ==
  /\ op = "calculate_professional_health_score"
  /\ res.exc = "none"
  /\ res.val.overall_score = 80
  /\ res.val.grade = "B+"

\* the names of the six component scores
ComponentNames ==
  {"data_governance", "data_quality", "metadata_completeness", "access_control",
   "compliance_readiness", "usage_optimization"}

\* C18: for a snapshot with total_assets > 0, every filter mapping (those that
\* earn the +5 and +10 bonuses included) and every outcome of the jitter, each
\* of the six component scores the scorer returns is at most 95.
C18_ComponentsAtMost95 ==
  (op = "calculate_professional_health_score" /\ arg.atlan_data.total_assets > 0)
  => /\ res.exc = "none"
     /\ DOMAIN res.val.component_scores = ComponentNames
     /\ \A c \in ComponentNames :
          res.val.component_scores[c].n <= 95 * res.val.component_scores[c].d

\* every asset verified and tagged, all three bonuses earned and the jitter at
\* the top of its ranges: five components are exactly 95
C18_AllBonuses ==
  /\ op = "calculate_professional_health_score"
  /\ arg.atlan_data.total_assets > 0
  /\ arg.atlan_data.verified_assets = arg.atlan_data.total_assets
  /\ arg.atlan_data.tagged_assets = arg.atlan_data.total_assets
  /\ quality_bonus(arg.filters)
  /\ access_bonus(arg.filters)
  /\ compliance_bonus(industry_info_of(arg.industry), arg.filters)
  /\ arg.rnd = JitterHigh
  /\ res.exc = "none"
  /\ \A c \in ComponentNames \ {"usage_optimization"} :
       res.val.component_scores[c].n = 95 * res.val.component_scores[c].d
  /\ res.val.component_scores.usage_optimization = Frac(90, 1)

\* the weights of the six components, in hundredths
Weights ==
  [data_governance |-> 25, data_quality |-> 20, metadata_completeness |-> 20,
   access_control |-> 15, compliance_readiness |-> 10, usage_optimization |-> 10]

\* t * 100 * the weighted sum of the component scores, t being the common
\* denominator of the scores
RECURSIVE WeightedTotal(_, _, _)
WeightedTotal(scores, t, names) ==
  IF names = {} THEN 0
  ELSE LET c == CHOOSE n \in names : TRUE
       IN Weights[c] * scores[c].n * (t \div scores[c].d)
          + WeightedTotal(scores, t, names \ {c})

\* t * 10000 * (weighted sum * multiplier) for the result of a call of the scorer
ProductOfCall ==
  WeightedTotal(res.val.component_scores, arg.atlan_data.total_assets, ComponentNames)
  * industry_info_of(arg.industry).health_multiplier

\* the weighted sum times the multiplier, truncated to an integer
TruncatedProduct == int_trunc(ProductOfCall, arg.atlan_data.total_assets * 10000)

\* C19: the overall score is the weighted sum of the six component scores
\* (weights 25, 20, 20, 15, 10, 10, which sum to 100) times the multiplier of
\* the industry (0.80 to 0.92, the one of technology for an unknown
\* industry), truncated to an integer.
C19_OverallIsTruncatedProduct ==
  (op = "calculate_professional_health_score" /\ res.exc = "none")
  => /\ WeightedTotal([c \in ComponentNames |-> [n |-> 1, d |-> 1]], 1, ComponentNames) = 100
     /\ industry_info_of(arg.industry).health_multiplier \in 80..92
     /\ arg.industry \notin DOMAIN industry_regulations
        => industry_info_of(arg.industry).health_multiplier
             = industry_regulations[technology].health_multiplier
     /\ res.val.overall_score = TruncatedProduct

\* healthcare, two assets that are both verified and tagged, no filter, the
\* jitter -3, 7, 8, 6, 1, 11: the weighted sum is 85, times 0.80 is 68, and
\* the scorer returns 67
C19_OneBelowProduct ==
  /\ op = "calculate_professional_health_score"
  /\ arg.industry = healthcare
  /\ arg.atlan_data = [total_assets |-> 2, verified_assets |-> 2, tagged_assets |-> 2]
  /\ arg.filters = <<>>
  /\ arg.rnd = [JitterInside EXCEPT !.below = TRUE]
  /\ res.exc = "none"
  /\ TruncatedProduct = 68
  /\ res.val.overall_score = 67

\* the overall score is the truncated product, or one less when the product
\* is an integer
C19_WithinOneOfProduct ==
  (op = "calculate_professional_health_score" /\ res.exc = "none")
  => \/ res.val.overall_score = TruncatedProduct
     \/ /\ res.val.overall_score = TruncatedProduct - 1
        /\ ProductOfCall % (arg.atlan_data.total_assets * 10000) = 0

FiltersOfTokens(filters, tokens) ==
  /\ {filters[i].k : i \in 1..Len(filters)} = {tokens[i].key : i \in 1..Len(tokens)}
  /\ \A i, j \in 1..Len(filters) : filters[i].k = filters[j].k => i = j
  /\ \A i \in 1..Len(tokens) :
       (\A j \in (i + 1)..Len(tokens) : tokens[j].key # tokens[i].key)
       => DictGet(filters, tokens[i].key)
            = (IF Contains(tokens[i].value, <<",">>)
               THEN ListVal(split_on(tokens[i].value, ","))
               ELSE StrVal(tokens[i].value))

\* C21 as stated: for a text that starts with a double quote that is never
\* closed, company_name is the first whitespace-delimited token, the rest is
\* searched for the tenant URL and the filters, the URL is None when the text
\* has no .atlan.com URL, and the filters are empty without key:value token.
C21_FirstTokenIsName ==
  (op = "parse_professional_command" /\ arg.command.form = "open")
  => /\ res.exc = "none"
     /\ ~res.val.none
     /\ res.val.company_name = split(arg.command_text)[1]
     /\ res.val.atlan_url = arg.command.url
     /\ FiltersOfTokens(res.val.filters, arg.command.tokens)

\* C21: for a text that starts with a double quote that is never closed,
\* company_name is the first whitespace-delimited token without its double
\* quotes, the rest is searched for the tenant URL and the filters, the URL is
\* None when the text has no .atlan.com URL, and the filters are empty
\* without key:value token.
C21_FirstTokenUnquotedIsName ==
  (op = "parse_professional_command" /\ arg.command.form = "open")
  => /\ res.exc = "none"
     /\ ~res.val.none
     /\ <<"\"">> \o res.val.company_name = split(arg.command_text)[1]
     /\ ~Contains(res.val.company_name, <<"\"">>)
     /\ res.val.atlan_url = arg.command.url
     /\ FiltersOfTokens(res.val.filters, arg.command.tokens)

\* "Open http://x.example.com: the name is Open, no URL, no filter
C21_OpenQuote ==
  /\ op = "parse_professional_command"
  /\ arg.command_text = <<"\"","O","p","e","n"," ","h","t","t","p",":","/","/","x",".","e","x","a","m","p","l","e",".","c","o","m">>
  /\ res = Return(Parsed(<<"O","p","e","n">>, NoneStr, <<>>))

\* C22: for every parsable command the background task started by
\* slack_command terminates and its last printed line is a canvas assessment;
\* when fetching or scoring raised, that canvas is made from the snapshot
\* 200/60/120 of the except branch; the event loop of a finished task is
\* closed and the task ends in "done", never with an escaped exception.
C22_ThreadPrintsCanvas ==
  \A i \in RequestIds :
    /\ (requests[i].pc = "fetch") ~>
         /\ requests[i].pc = "done"
         /\ requests[i].loop = "closed"
         /\ log[i] # <<>>
         /\ log[i][Len(log[i])].kind = "canvas"
    /\ [](requests[i].pc = "done" =>
           /\ requests[i].loop = "closed"
           /\ log[i][Len(log[i])].kind = "canvas"
           /\ \A k \in 1..(Len(log[i]) - 1) : log[i][k].kind = "error"
           /\ Len(log[i]) > 1 => log[i][Len(log[i])].atlan_data = except_data)

\* a task whose snapshot had no asset printed the error and then the canvas
\* of the except branch
C22_CanvasAfterDivisionByZero ==
  \E i \in RequestIds :
    /\ requests[i].pc = "done"
    /\ requests[i].loop = "closed"
    /\ requests[i].branch = "except"
    /\ Len(log[i]) = 2
    /\ log[i][1] = error_line(i)
    /\ log[i][2].kind = "canvas"
    /\ log[i][2].atlan_data = except_data
    /\ log[i][2].company_name = <<"T","e","c","h","C","o","r","p">>

\* the industry simulation the else branch of fetch_real_atlan_data is
\* written to return: the total and the two rates, in percent, by industry
SimulationOf(filters) ==
  LET text == lower(str_dict(filters))
      base == IF Contains(text, <<"f","i","n","a","n","c","e">>) THEN [total |-> 340, verified |-> 75, tagged |-> 85]
              ELSE IF Contains(text, <<"h","e","a","l","t","h","c","a","r","e">>) THEN [total |-> 280, verified |-> 80, tagged |-> 90]
              ELSE IF Contains(text, <<"c","o","n","s","t","r","u","c","t","i","o","n">>) THEN [total |-> 180, verified |-> 25, tagged |-> 45]
              ELSE [total |-> 250, verified |-> 60, tagged |-> 70]
      certified == /\ DictHas(filters, <<"c","e","r","t","i","f","i","c","a","t","e">>)
                   /\ Contains(str_value(DictGet(filters, <<"c","e","r","t","i","f","i","c","a","t","e">>)), <<"V","E","R","I","F","I","E","D">>)
      verified == IF certified THEN Min({95, base.verified + 15}) ELSE base.verified
      tagged == IF DictHas(filters, <<"t","a","g","s">>) THEN Min({95, base.tagged + 10}) ELSE base.tagged
  IN [total_assets |-> base.total,
      verified_assets |-> (base.total * verified) \div 100,
      tagged_assets |-> (base.total * tagged) \div 100]

\* C23: when the MCP tool call returns no real data, fetch_real_atlan_data
\* returns the industry simulation chosen from the filters (340 assets for
\* finance, 280 for healthcare, 180 for construction, 250 otherwise, counts
\* from the industry's rates, raised for a VERIFIED certificate or a tags
\* filter) with data_source 'REALISTIC_INDUSTRY_SIMULATION'.
C23_SimulationReturned ==
  (op = "fetch_real_atlan_data" /\ arg.search_results.data_source # <<"R","E","A","L","_","M","C","P","_","D","I","R","E","C","T","_","C","A","L","L">>)
  => /\ res.val.data_source = <<"R","E","A","L","I","S","T","I","C","_","I","N","D","U","S","T","R","Y","_","S","I","M","U","L","A","T","I","O","N">>
     /\ res.val.total_assets = SimulationOf(arg.filters).total_assets
     /\ res.val.verified_assets = SimulationOf(arg.filters).verified_assets
     /\ res.val.tagged_assets = SimulationOf(arg.filters).tagged_assets

\* a finance filter and no MCP: the fixed fallback data came back, not the
\* 340 assets of the finance simulation
C23_FallbackForFinance ==
  /\ op = "fetch_real_atlan_data"
  /\ arg.search_results.data_source = <<"M","C","P","_","N","O","T","_","A","V","A","I","L","A","B","L","E">>
  /\ arg.filters = <<[k |-> <<"i","n","d","u","s","t","r","y">>, v |-> StrVal(<<"f","i","n","a","n","c","e">>)]>>
  /\ SimulationOf(arg.filters).total_assets = 340
  /\ res.val.data_source = <<"F","A","L","L","B","A","C","K","_","D","A","T","A">>
  /\ res.val.total_assets = 200
  /\ res.val.verified_assets = 80
  /\ res.val.tagged_assets = 120

\* the cases of C24 in which the signature check is to return false
FailsClosedCase ==
  \/ arg.secret = <<>>
  \/ arg.request.timestamp.kind \in {"missing", "text"}
  \/ arg.request.signature = "missing"
  \/ arg.request.timestamp.kind = "huge"
  \/ /\ arg.request.timestamp.kind = "seconds"
     /\ 2 * arg.request.timestamp.seconds - arg.now2 > 2 * max_age

\* with no secret configured every POST to the two Slack routes gets 401
NoSecretGets401 ==
  (/\ op \in {"handle_atlan_setup", "handle_interactive", "handler"}
   /\ arg.method = "POST"
   /\ arg.path \in {<<"/","s","l","a","c","k","/","a","t","l","a","n","-","s","e","t","u","p">>, <<"/","s","l","a","c","k","/","i","n","t","e","r","a","c","t","i","v","e">>}
   /\ arg.secret = <<>>)
  => res = Response(401, ErrorBody("Unauthorized"))

\* C24: the signature check of src/app.py and src/.netlify/functions/app.py
\* fails closed: verify_slack_signature returns false when no secret is
\* configured, when a signature header or the timestamp header is missing,
\* when the timestamp is no integer and when it lies more than 300 seconds in
\* the future; with no secret every POST to /slack/atlan-setup and
\* /slack/interactive is answered 401.
C24_FailsClosed ==
  /\ (op = "verify_slack_signature" /\ FailsClosedCase) => res = Return(FALSE)
  /\ NoSecretGets401

\* the same without the timestamps whose subtraction overflows: this holds
C24_FailsClosedUnlessOverflow ==
  /\ (/\ op = "verify_slack_signature"
      /\ FailsClosedCase
      /\ ~(arg.secret # <<>> /\ arg.request.signature # "missing"
           /\ arg.request.timestamp.kind = "huge"))
     => res = Return(FALSE)
  /\ NoSecretGets401

\* a timestamp of 401 digits, far in the future, with a secret configured and
\* a signature header present: the check raises OverflowError
C24_OverflowInFuture ==
  /\ op = "verify_slack_signature"
  /\ arg.file = "app.py"
  /\ arg.secret # <<>>
  /\ arg.request.timestamp.kind = "huge"
  /\ Len(arg.request.timestamp.text) = 401
  /\ arg.request.signature = "other_key"
  /\ res = Raise("OverflowError")

\* a POST to /slack/atlan-setup with that timestamp gets Flask's 500, not 401
C3_OverflowGets500 ==
  /\ op = "handle_atlan_setup"
  /\ arg.method = "POST"
  /\ arg.secret # <<>>
  /\ arg.request.timestamp.kind = "huge"
  /\ arg.request.signature = "other_key"
  /\ res = internal_server_error

\* C25: for a command text that begins with a double-quoted company name,
\* handle_atlan_setup of src/app.py reports the health check for the full
\* name between the quotes, the company name parse_professional_command
\* extracts from that text.
C25_ReportsQuotedName ==
  (/\ op = "handle_atlan_setup"
   /\ res.statusCode = 200
   /\ StartsWithAt(strip(form_get(arg.request.body, <<"t","e","x","t">>)), 1, <<"\"">>)
   /\ find(strip(form_get(arg.request.body, <<"t","e","x","t">>)), "\"", 2) # 0)
  => /\ res.body.response_type = "in_channel"
     /\ res.body.text =
          Text("started",
               parse_professional_command(strip(form_get(arg.request.body, <<"t","e","x","t">>))).val.company_name)

\* '"Demo Corp" https://demo.atlan.com': the health check is reported for
\* '"Demo', the parser's company name being 'Demo Corp'
C25_ReportsFirstToken ==
  /\ op = "handle_atlan_setup"
  /\ form_get(arg.request.body, <<"t","e","x","t">>) = <<"\"","D","e","m","o"," ","C","o","r","p","\""," ","h","t","t","p","s",":","/","/","d","e","m","o",".","a","t","l","a","n",".","c","o","m">>
  /\ parse_professional_command(<<"\"","D","e","m","o"," ","C","o","r","p","\""," ","h","t","t","p","s",":","/","/","d","e","m","o",".","a","t","l","a","n",".","c","o","m">>).val.company_name
       = <<"D","e","m","o"," ","C","o","r","p">>
  /\ res = Response(200, MessageBody("in_channel", Text("started", <<"\"","D","e","m","o">>)))

\* what handler of src/.netlify/functions/app.py answers to the request of
\* the current call of a view function of src/app.py
NetlifyAnswer ==
  netlify_app_handler(arg.secret,
                      [method |-> arg.method, path |-> arg.path,
                       headers |-> Headers(arg.secret, arg.request),
                       body |-> arg.request.body],
                      arg.now2, arg.fault)

\* C26: on POST /slack/atlan-setup, POST /slack/interactive, GET / and
\* GET /health the Netlify adapter and the Flask app answer the same request
\* (method, path, signature headers, form body) with the same status and the
\* same JSON body, the 401, the usage message and the 'started' message
\* included.
C26_AdaptersAgree ==
  (op \in {"handle_atlan_setup", "handle_interactive", "health_check"} /\ arg.file = "app.py")
  => /\ NetlifyAnswer.statusCode = res.statusCode
     /\ NetlifyAnswer.body = res.body

\* a signed body whose first text field is blank and whose second is 'Demo':
\* src/app.py answers with the usage message, the Netlify adapter with
\* 'Health Check Started for Demo'
C26_BlankFirstText ==
  /\ op = "handle_atlan_setup"
  /\ arg.file = "app.py"
  /\ arg.request.body = <<"t","e","x","t","=","&","t","e","x","t","=","D","e","m","o">>
  /\ arg.request.names = "lower"
  /\ res = Response(200, MessageBody("ephemeral", Text("usage", <<>>)))
  /\ NetlifyAnswer = Response(200, MessageBody("in_channel", Text("started", <<"D","e","m","o">>)))

\* C27: for every snapshot with total_assets > 0 and counts that are not
\* negative, every industry, every filter mapping and every outcome of the
\* jitter, the scorer returns an overall score of at most 86, so never the
\* grade 'A'.
C27_OverallAtMost86 ==
  (/\ op = "calculate_professional_health_score"
   /\ arg.atlan_data.total_assets > 0
   /\ arg.atlan_data.verified_assets >= 0
   /\ arg.atlan_data.tagged_assets >= 0)
  => /\ res.exc = "none"
     /\ res.val.overall_score <= 86
     /\ res.val.grade # "A"

\* technology (multiplier 0.92) with every component at its largest: 95, 95,
\* 95, 95, 95 and 90 give 94.5 * 0.92 = 86.94, an overall score of 86
C27_LargestScore ==
  /\ op = "calculate_professional_health_score"
  /\ arg.industry = technology
  /\ arg.atlan_data.total_assets > 0
  /\ res.exc = "none"
  /\ \A c \in ComponentNames \ {"usage_optimization"} :
       res.val.component_scores[c].n = 95 * res.val.component_scores[c].d
  /\ res.val.component_scores.usage_optimization = Frac(90, 1)
  /\ res.val.overall_score = 86
  /\ res.val.grade = "B+"

\* the counts of a snapshot lie between 0 and its total
CountsWithinTotal(data) ==
  /\ 0 <= data.verified_assets /\ data.verified_assets <= data.total_assets
  /\ 0 <= data.tagged_assets /\ data.tagged_assets <= data.total_assets

\* C28: every snapshot returned by fetch_atlan_data, fetch_real_atlan_data or
\* fetch_tenant_overview, on the normal path and on the exception fallback
\* path, for every filter mapping and every random draw, has
\* 0 <= verified_assets <= total_assets and 0 <= tagged_assets <= total_assets.
C28_CountsWithinTotal ==
  op \in {"fetch_atlan_data", "fetch_real_atlan_data", "fetch_tenant_overview"}
  => /\ res.exc = "none"
     /\ CountsWithinTotal(res.val)

\* the bounds hold on every path but the except branch of fetch_atlan_data,
\* whose three counts are drawn independently
C28_CountsWithinTotalButFallback ==
  (/\ op \in {"fetch_atlan_data", "fetch_real_atlan_data", "fetch_tenant_overview"}
   /\ ~(op = "fetch_atlan_data" /\ certificate_status_of(arg.filters).exc # "none"))
  => /\ res.exc = "none"
     /\ CountsWithinTotal(res.val)

\* a list-valued certificate filter sends fetch_atlan_data to its except
\* branch, where randint(100, 1000) gave 100 and randint(50, 500) gave 500
C28_FallbackVerifiedAboveTotal ==
  /\ op = "fetch_atlan_data"
  /\ DictHas(arg.filters, <<"c","e","r","t","i","f","i","c","a","t","e">>)
  /\ DictGet(arg.filters, <<"c","e","r","t","i","f","i","c","a","t","e">>).list
  /\ res.exc = "none"
  /\ res.val.error # NoneStr
  /\ res.val.total_assets = 100
  /\ res.val.verified_assets = 500

\* building the search conditions of fetch_tenant_overview raises: the first
\* connection name of an empty list, or upper() of a list
SearchConditionsRaise(filters) ==
  /\ filters # <<>>
  /\ \/ connection_pattern_of(filters).exc # "none"
     \/ certificate_status_of(filters).exc # "none"

\* C29: fetch_tenant_overview never raises: for every filter mapping, a
\* certificate or connections value of an unexpected type (a list, an empty
\* list) included, an exception while the search conditions are built is
\* caught and the fixed fallback data, with its 'error' entry, is returned.
C29_OverviewNeverRaises ==
  op = "fetch_tenant_overview"
  => /\ res.exc = "none"
     /\ SearchConditionsRaise(arg.filters)
          => /\ res.val = overview_fallback_data
             /\ res.val.error # NoneStr
     /\ ~SearchConditionsRaise(arg.filters) => res.val.error = NoneStr

\* connections is an empty list: connection_names[0] raises IndexError and the
\* fallback data come back
C29_EmptyConnectionsFallBack ==
  /\ op = "fetch_tenant_overview"
  /\ DictHas(arg.filters, <<"c","o","n","n","e","c","t","i","o","n","s">>)
  /\ DictGet(arg.filters, <<"c","o","n","n","e","c","t","i","o","n","s">>) = ListVal(<<>>)
  /\ res.exc = "none"
  /\ res.val.total_assets = 500
  /\ res.val.error = SomeStr(<<"M","C","P"," ","c","o","n","n","e","c","t","i","o","n"," ","f","a","i","l","e","d",","," ","u","s","i","n","g"," ","f","a","l","l","b","a","c","k"," ","d","a","t","a">>)

\* len() of the first k lines of a report, each with its newline
chunk_length(lines, k) == Sum(SubSeq(lines, 1, k)) + k

\* C30: the chunk the slack-command handler takes from a report longer than
\* max_length is the longest prefix of whole lines whose length, one newline
\* per line counted, is at most max_length: no line is cut, skipped or moved,
\* and the chunk is empty when the first line alone is longer than the limit.
C30_ChunkIsLongestPrefix ==
  (/\ op = "slack_command_handler"
   /\ res.body.json = "message"
   /\ res.body.text.msg = "first_chunk")
  => LET lines == arg.env.canvas_lines
         chunk == res.body.text.lines
         k == Len(chunk)
     IN /\ joined_length(lines) > max_length
        /\ k < Len(lines)
        /\ chunk = SubSeq(lines, 1, k)
        /\ chunk_length(lines, k) <= max_length
        /\ chunk_length(lines, k + 1) > max_length
        /\ res.body.text.length =
             Len(<<"@"," ","*","*">>) + Len(arg.env.company_name)
             + Len(<<" ","-"," ","H","e","a","l","t","h"," ","A","s","s","e","s","s","m","e","n","t","*","*","\n","\n","^","^","^","\n">>) + chunk_length(lines, k)
             + Len(<<"\n","^","^","^","\n","\n","*","H","e","a","l","t","h"," ","S","c","o","r","e",":"," ">>) + decimal_length(arg.env.overall_score)
             + Len(<<"/","1","0","0","*">>)
        /\ lines[1] > max_length => chunk = <<>>

\* two lines of 1899 characters fill the chunk to max_length exactly and the
\* third line is left out
C30_ChunkFillsLimit ==
  /\ op = "slack_command_handler"
  /\ res.body.json = "message"
  /\ res.body.text.msg = "first_chunk"
  /\ Len(arg.env.canvas_lines) = 3
  /\ Len(res.body.text.lines) = 2
  /\ chunk_length(arg.env.canvas_lines, 2) = max_length

====
